---- MODULE Spec2Model ----
(***************************************************************************)
(* NASDAQ breakout bot: the risk ledger (modules/risk_manager.py), the     *)
(* order lifecycle manager (modules/order_manager.py), the broker gateway  *)
(* it talks to (modules/alpaca_api.py) and the session driver (bot.py).    *)
(*                                                                         *)
(* Money and prices are integers (points / currency units); the ledger's   *)
(* percentages are kept as exact fractions Num/Den, so a float comparison  *)
(* a <= e * 0.02 is the integer comparison a * 100 <= e * 2.               *)
(* Every handler is one action.  The broker's answers (a call succeeds or  *)
(* the gateway raises AlpacaAPIError) are inputs drawn with \E.            *)
(*                                                                         *)
(* Eleven specifications share the actions:                                *)
(*   Spec        the order lifecycle of one day under a failing gateway    *)
(*   SpecLedger  orders and risk ledger over several days, gateway         *)
(*               answering                                                 *)
(*   SpecRisk    the risk ledger driven directly, with process restarts    *)
(*   SpecSizing  calculate_position_size over a set of arguments           *)
(*   SpecBot     one session of the bot's run()                            *)
(*   SpecThreads the monitor thread step by step next to a client          *)
(*   SpecStrategy  the breakout levels and stop distance over a set of     *)
(*               configurations and opening ranges                         *)
(*   SpecRetry   a gateway call over the outcomes of its attempts          *)
(*   SpecMonitor the monitor loop next to a client of one symbol, the      *)
(*               loop being scheduled fairly                               *)
(*   SpecSelfStop  placements next to the monitor thread step by step,     *)
(*               its self-stop included                                    *)
(*   SpecDay     the bot run again and again on one calendar day           *)
(***************************************************************************)
EXTENDS Integers, Sequences, FiniteSets, TLC

----------------------------------------------------------------------------
(* Bounds of the model *)

\* order ids the broker can hand out
MaxOrders == 4
\* calendar days the clock runs through
MaxDay == 2
\* trade results recorded per process before on_trade_exit is no longer driven
MaxRecords == 2
\* monitor loops that may be alive at once before start_monitoring is no longer driven
MaxThreads == 2
\* handler runs per behaviour in which the gateway raises AlpacaAPIError
MaxFaults == 1

(* Program constants *)

\* RiskManager.__init__: max_trades_per_day = 2
max_trades_per_day == 2
\* RiskManager.__init__: max_daily_loss_percent = 0.02 = 2 / 100
max_daily_loss_num == 2
max_daily_loss_den == 100
\* RiskManager.__init__: default_risk_percent = 0.005 = 5 / 1000
default_risk_num == 5
default_risk_den == 1000
\* RiskManager.__init__: point_value = 1.0
point_value == 1
\* reset_daily_limits: timedelta(days=30)
history_days == 30

(* Inputs *)

\* the symbols a client of the OrderManager places pairs for
Symbols == {"QQQ", "MNQ"}
\* the symbol of config["trading"]["symbol"]
BotSymbol == "QQQ"
\* the symbols of a single-instrument session
TradedSymbols == {BotSymbol}
Equities == {0, 100000}
\* account equities the broker reports to the bot: also an account in deficit
AccountEquities == Equities \cup {-100000}
PnLs == {-2500, 200}
ExitPrices == {15100}
\* (long_entry, short_entry, stop_loss_points, take_profit_points) of a placement
PlaceInputs ==
    { [long_entry |-> 15050, short_entry |-> 14965,
       stop_loss_points |-> 25, take_profit_points |-> 50],
      [long_entry |-> 15050, short_entry |-> 14965,
       stop_loss_points |-> 0, take_profit_points |-> 50] }
\* slippage of a fill against the order's trigger price
Slippages == {5}
\* equities and potential losses passed to the risk checks: 2% of 115000 is 2300,
\* the net loss of a day with one trade of -2500 and one of +200
RiskEquities == {100000, 115000}
PotentialLosses == {0, 1}
\* the trade a client of the ledger records: quantity, entry and exit price
RecordedQuantity == 20
RecordedEntry == 15055
RecordedExit == 15100
\* arguments of calculate_position_size: equities around zero and around the sizes
\* 0.995, 1 and 2.5; price risks 0, 1, 10, 25 and 14951
SizingEquities == {-100000, -1, 0, 1, 199, 200, 5000, 100000}
SizingEntries == {100, 15050}
SizingStops == {99, 100, 110, 15025, 15049, 15050}

NoDate == 0
NoId == 0
Days == 1..MaxDay
OrderIds == 1..MaxOrders

----------------------------------------------------------------------------
(* Arithmetic helpers *)

Abs(x) == IF x < 0 THEN -x ELSE x
Min(a, b) == IF a < b THEN a ELSE b
\* Python int(a / b) for b > 0: truncation toward zero
IntTrunc(a, b) == IF a >= 0 THEN a \div b ELSE -((-a) \div b)

----------------------------------------------------------------------------
(* Risk ledger: modules/risk_manager.py *)

\* the state a freshly constructed RiskManager has before _load_daily_data
NewLedger ==
    [current_date |-> NoDate, daily_pnl |-> 0, trades_today |-> 0,
     trade_history |-> << >>]

NoFile == [exists |-> FALSE]

\* _save_daily_data: the blob written to data/risk_manager_data.json
save_daily_data(r) ==
    [exists |-> TRUE, current_date |-> r.current_date, daily_pnl |-> r.daily_pnl,
     trades_today |-> r.trades_today, trade_history |-> r.trade_history]

\* variant of reset_daily_limits that keeps the whole trade history
reset_daily_limits_keeps_history(r, d) ==
    [current_date |-> d, daily_pnl |-> 0, trades_today |-> 0,
     trade_history |-> r.trade_history]

\* variant of reset_daily_limits that carries the trade count into the new day
reset_daily_limits_keeps_count(r, d) ==
    [current_date |-> d, daily_pnl |-> 0, trades_today |-> r.trades_today,
     trade_history |-> SelectSeq(r.trade_history,
                                 LAMBDA t : t.timestamp > d - history_days)]

\* reset_daily_limits: zero the counters, keep the last 30 days of history
reset_daily_limits(r, d) ==
    [current_date |-> d, daily_pnl |-> 0, trades_today |-> 0,
     trade_history |-> SelectSeq(r.trade_history,
                                 LAMBDA t : t.timestamp > d - history_days)]

\* _ensure_current_date: lazy day rollover
ensure_current_date(r, d) ==
    IF r.current_date # d THEN reset_daily_limits(r, d) ELSE r

\* variant of file_after_ensure in which the rollover does not write the file
file_after_ensure_no_save(r, d, f) == f

\* the file after _ensure_current_date (reset_daily_limits saves, a fresh date does not)
file_after_ensure(r, d, f) ==
    IF r.current_date # d THEN save_daily_data(reset_daily_limits(r, d)) ELSE f

\* off-by-one variant of check_trade_count: the cap itself still passes
check_trade_count_off_by_one(r) == r.trades_today <= max_trades_per_day

\* check_trade_count on a ledger whose date is current
check_trade_count(r) == r.trades_today < max_trades_per_day

\* variant of check_daily_loss whose boundary is exclusive
check_daily_loss_exclusive(r, account_equity, potential_loss) ==
    LET current_loss == Abs(Min(0, r.daily_pnl))
        total_potential_loss == current_loss + Abs(potential_loss)
    IN  total_potential_loss * max_daily_loss_den < account_equity * max_daily_loss_num

\* check_daily_loss on a ledger whose date is current; potential_loss = 0 stands for None
check_daily_loss(r, account_equity, potential_loss) ==
    LET current_loss == Abs(Min(0, r.daily_pnl))
        total_potential_loss == current_loss + Abs(potential_loss)
    IN  total_potential_loss * max_daily_loss_den <= account_equity * max_daily_loss_num

\* variant of can_trade that only looks at the daily loss
can_trade_loss_only(r, d, account_equity, potential_loss) ==
    check_daily_loss(ensure_current_date(r, d), account_equity, potential_loss)

\* can_trade: trade count first, then daily loss
can_trade(r, d, account_equity, potential_loss) ==
    LET r1 == ensure_current_date(r, d)
    IN  IF ~check_trade_count(r1) THEN FALSE
        ELSE IF ~check_daily_loss(r1, account_equity, potential_loss) THEN FALSE
        ELSE TRUE

\* variant of calculate_position_size that rounds the raw size up
calculate_position_size_rounds_up(account_equity, entry_price, stop_price) ==
    LET price_risk == Abs(entry_price - stop_price)
        monetary_risk_per_unit == price_risk * point_value
        budget == account_equity * default_risk_num
        unit == default_risk_den * monetary_risk_per_unit
        raw == IF monetary_risk_per_unit <= 0 THEN 0
               ELSE IF budget > 0 /\ budget % unit # 0
               THEN IntTrunc(budget, unit) + 1
               ELSE IntTrunc(budget, unit)
    IN  [raised |-> (monetary_risk_per_unit <= 0) \/ (account_equity = 0),
         size   |-> IF raw < 1 THEN 1 ELSE raw]

\* calculate_position_size with the default risk percent:
\* raised = RiskLimitExceeded (ValueError on zero price risk, ZeroDivisionError on
\* account_equity == 0 in the actual_risk_percent computation)
calculate_position_size(account_equity, entry_price, stop_price) ==
    LET price_risk == Abs(entry_price - stop_price)
        monetary_risk_per_unit == price_risk * point_value
        raw == IF monetary_risk_per_unit <= 0 THEN 0
               ELSE IntTrunc(account_equity * default_risk_num,
                             default_risk_den * monetary_risk_per_unit)
    IN  [raised |-> (monetary_risk_per_unit <= 0) \/ (account_equity = 0),
         size   |-> IF raw < 1 THEN 1 ELSE raw]

\* variant of record_trade_result in which only losses move daily_pnl
record_trade_result_losses_only(r, d, pnl, symbol, quantity, entry_price, exit_price) ==
    LET r1 == ensure_current_date(r, d)
    IN  [current_date |-> r1.current_date,
         daily_pnl |-> r1.daily_pnl + Min(0, pnl),
         trades_today |-> r1.trades_today + 1,
         trade_history |-> Append(r1.trade_history,
             [timestamp |-> d, pnl |-> pnl, symbol |-> symbol, quantity |-> quantity,
              entry_price |-> entry_price, exit_price |-> exit_price])]

\* variant of record_trade_result that accumulates on a stale ledger without the rollover
record_trade_result_no_rollover(r, d, pnl, symbol, quantity, entry_price, exit_price) ==
    [current_date |-> r.current_date,
     daily_pnl |-> r.daily_pnl + pnl,
     trades_today |-> r.trades_today + 1,
     trade_history |-> Append(r.trade_history,
         [timestamp |-> d, pnl |-> pnl, symbol |-> symbol, quantity |-> quantity,
          entry_price |-> entry_price, exit_price |-> exit_price])]

\* record_trade_result: rollover if stale, then accumulate and append
record_trade_result(r, d, pnl, symbol, quantity, entry_price, exit_price) ==
    LET r1 == ensure_current_date(r, d)
    IN  [current_date |-> r1.current_date,
         daily_pnl |-> r1.daily_pnl + pnl,
         trades_today |-> r1.trades_today + 1,
         trade_history |-> Append(r1.trade_history,
             [timestamp |-> d, pnl |-> pnl, symbol |-> symbol, quantity |-> quantity,
              entry_price |-> entry_price, exit_price |-> exit_price])]

\* the checks can_trade evaluates, in order, each with its result
can_trade_checks(r, d, account_equity, potential_loss) ==
    LET r1 == ensure_current_date(r, d)
    IN  IF ~check_trade_count(r1)
        THEN << [call |-> "check_trade_count", id |-> 0, ok |-> FALSE] >>
        ELSE << [call |-> "check_trade_count", id |-> 0, ok |-> TRUE],
                [call |-> "check_daily_loss", id |-> 0,
                 ok |-> check_daily_loss(r1, account_equity, potential_loss)] >>

\* variant of load_daily_data that takes the persisted state over whatever its date
load_daily_data_any_date(f, d) ==
    IF f.exists
    THEN [current_date |-> f.current_date, daily_pnl |-> f.daily_pnl,
          trades_today |-> f.trades_today, trade_history |-> f.trade_history]
    ELSE NewLedger

\* __init__ followed by _load_daily_data: the persisted state is taken over only
\* when the file exists and carries today's date
load_daily_data(f, d) ==
    IF f.exists /\ f.current_date # NoDate /\ f.current_date = d
    THEN [current_date |-> f.current_date, daily_pnl |-> f.daily_pnl,
          trades_today |-> f.trades_today, trade_history |-> f.trade_history]
    ELSE NewLedger

----------------------------------------------------------------------------
(* Broker gateway: modules/alpaca_api.py seen from its callers.            *)
(* A handler threads a record s through the calls it makes:                *)
(*   s.orders, s.next_id      the broker's order book                      *)
(*   s.active, s.executed_trades, s.monitoring_active, s.monitor_threads   *)
(*                            the OrderManager's fields                    *)
(*   s.calls                  the calls the handler has made so far        *)
(*   s.ret, s.exc             value returned / exception raised by the     *)
(*                            last call ("" = none)                        *)
(***************************************************************************)

NoOrder ==
    [status |-> "none", symbol |-> "", side |-> "", qty |-> 0, stop_price |-> 0,
     take_profit |-> 0, stop_loss |-> 0, filled_avg_price |-> 0]

Call(name, id, ok) == [call |-> name, id |-> id, ok |-> ok]

\* OrderParams(...) as built by place_breakout_orders: a stop entry with a bracket
OrderParams(symbol, qty, side, stop_price, take_profit, stop_loss) ==
    [symbol |-> symbol, qty |-> qty, side |-> side, stop_price |-> stop_price,
     take_profit |-> take_profit, stop_loss |-> stop_loss]

\* AlpacaAPI.submit_order: the broker accepts the order and returns its id,
\* or the gateway raises AlpacaAPIError and no order exists
api_submit_order(s, p, ok) ==
    IF ok
    THEN [s EXCEPT !.orders[s.next_id] =
                       [status |-> "live", symbol |-> p.symbol, side |-> p.side,
                        qty |-> p.qty, stop_price |-> p.stop_price,
                        take_profit |-> p.take_profit, stop_loss |-> p.stop_loss,
                        filled_avg_price |-> 0],
                   !.next_id = @ + 1,
                   !.calls = Append(@, Call("submit_order", s.next_id, TRUE)),
                   !.ret = s.next_id, !.exc = ""]
    ELSE [s EXCEPT !.calls = Append(@, Call("submit_order", NoId, FALSE)),
                   !.ret = NoId, !.exc = "AlpacaAPIError"]

\* AlpacaAPI.cancel_order: True, or AlpacaAPIError; the broker only cancels an order
\* that is still live (a filled or cancelled order is rejected)
api_cancel_order(s, order_id, ok) ==
    IF ok /\ s.orders[order_id].status = "live"
    THEN [s EXCEPT !.orders[order_id].status = "canceled",
                   !.calls = Append(@, Call("cancel_order", order_id, TRUE)),
                   !.ret = order_id, !.exc = ""]
    ELSE [s EXCEPT !.calls = Append(@, Call("cancel_order", order_id, FALSE)),
                   !.ret = NoId, !.exc = "AlpacaAPIError"]

\* AlpacaAPI.cancel_all_orders: True and every live order is cancelled, or AlpacaAPIError
api_cancel_all_orders(s, ok) ==
    IF ok
    THEN [s EXCEPT !.orders = [i \in OrderIds |->
                                  IF s.orders[i].status = "live"
                                  THEN [s.orders[i] EXCEPT !.status = "canceled"]
                                  ELSE s.orders[i]],
                   !.calls = Append(@, Call("cancel_all_orders", NoId, TRUE)),
                   !.ret = NoId, !.exc = ""]
    ELSE [s EXCEPT !.calls = Append(@, Call("cancel_all_orders", NoId, FALSE)),
                   !.ret = NoId, !.exc = "AlpacaAPIError"]

\* AlpacaAPI.get_order_status: the order's record, or AlpacaAPIError
api_get_order_status(s, order_id, ok) ==
    IF ok
    THEN [s EXCEPT !.calls = Append(@, Call("get_order_status", order_id, TRUE)),
                   !.ret = order_id, !.exc = ""]
    ELSE [s EXCEPT !.calls = Append(@, Call("get_order_status", order_id, FALSE)),
                   !.ret = NoId, !.exc = "AlpacaAPIError"]

----------------------------------------------------------------------------
(* The tracking table active_breakout_orders: a Python dict keyed by symbol,   *)
(* kept as the sequence of its values in insertion order.                      *)

TableSymbols(t) == { t[i].symbol : i \in 1..Len(t) }
TableHas(t, symbol) == symbol \in TableSymbols(t)
TableIndex(t, symbol) == CHOOSE i \in 1..Len(t) : t[i].symbol = symbol
TableGet(t, symbol) == t[TableIndex(t, symbol)]
\* d[symbol] = pair: replace in place, or insert at the end
TablePut(t, pair) ==
    IF TableHas(t, pair.symbol)
    THEN [t EXCEPT ![TableIndex(t, pair.symbol)] = pair]
    ELSE Append(t, pair)
\* del d[symbol]
TableDel(t, symbol) == SelectSeq(t, LAMBDA q : q.symbol # symbol)

----------------------------------------------------------------------------
(* Order lifecycle manager: modules/order_manager.py *)

\* raise OrderManagerError out of a handler
RaiseOrderManagerError(s) == [s EXCEPT !.ret = NoId, !.exc = "OrderManagerError"]

\* start_monitoring: no-op when active, else set the flag and start a monitor thread
start_monitoring(s) ==
    IF s.monitoring_active THEN s
    ELSE [s EXCEPT !.monitoring_active = TRUE,
                   !.monitor_threads = @ + 1,
                   !.calls = Append(@, Call("start_monitoring", NoId, TRUE))]

\* stop_monitoring: clear the flag, join the thread for at most 5 s;
\* joined = the loop observed the flag and ended within the timeout
stop_monitoring(s, joined) ==
    [s EXCEPT !.monitoring_active = FALSE,
              !.monitor_threads = IF joined /\ @ > 0 THEN @ - 1 ELSE @,
              !.calls = Append(@, Call("stop_monitoring", NoId, TRUE))]

\* variant of track_breakout_orders that tracks the pair and never starts monitoring
track_breakout_orders_no_monitor(s, symbol, p, position_size, long_id, short_id) ==
    LET breakout_orders ==
            [long_order_id |-> long_id, short_order_id |-> short_id,
             symbol |-> symbol, long_entry |-> p.long_entry,
             short_entry |-> p.short_entry,
             stop_loss_points |-> p.stop_loss_points,
             take_profit_points |-> p.take_profit_points,
             position_size |-> position_size]
    IN  [s EXCEPT !.active = TablePut(@, breakout_orders), !.ret = long_id, !.exc = ""]

\* the tail of place_breakout_orders once both submissions returned:
\* build the BreakoutOrders container, track it, start monitoring if not active
track_breakout_orders(s, symbol, p, position_size, long_id, short_id) ==
    LET breakout_orders ==
            [long_order_id |-> long_id, short_order_id |-> short_id,
             symbol |-> symbol, long_entry |-> p.long_entry,
             short_entry |-> p.short_entry,
             stop_loss_points |-> p.stop_loss_points,
             take_profit_points |-> p.take_profit_points,
             position_size |-> position_size]
        s1 == [s EXCEPT !.active = TablePut(@, breakout_orders)]
        s2 == IF ~s1.monitoring_active THEN start_monitoring(s1) ELSE s1
    IN  [s2 EXCEPT !.ret = long_id, !.exc = ""]

\* variant of submit_breakout_orders that keeps the half-placed pair in the table
\* when the short submission fails
submit_breakout_orders_keeps_partial(s, symbol, p, position_size, ok_long, ok_short) ==
    LET long_order_params ==
            OrderParams(symbol, position_size, "buy", p.long_entry,
                        p.long_entry + p.take_profit_points,
                        p.long_entry - p.stop_loss_points)
        short_order_params ==
            OrderParams(symbol, position_size, "sell", p.short_entry,
                        p.short_entry - p.take_profit_points,
                        p.short_entry + p.stop_loss_points)
        s1 == api_submit_order(s, long_order_params, ok_long)
        s2 == api_submit_order(s1, short_order_params, ok_short)
    IN  IF s1.exc # "" THEN RaiseOrderManagerError(s1)
        ELSE IF s2.exc # ""
        THEN RaiseOrderManagerError(
                 track_breakout_orders(s2, symbol, p, position_size, s1.ret, NoId))
        ELSE track_breakout_orders(s2, symbol, p, position_size, s1.ret, s2.ret)

\* variant of submit_breakout_orders whose short bracket is laid out like the long
\* one (stop below, target above the entry)
submit_breakout_orders_short_like_long(s, symbol, p, position_size, ok_long, ok_short) ==
    LET long_order_params ==
            OrderParams(symbol, position_size, "buy", p.long_entry,
                        p.long_entry + p.take_profit_points,
                        p.long_entry - p.stop_loss_points)
        short_order_params ==
            OrderParams(symbol, position_size, "sell", p.short_entry,
                        p.short_entry + p.take_profit_points,
                        p.short_entry - p.stop_loss_points)
        s1 == api_submit_order(s, long_order_params, ok_long)
        s2 == api_submit_order(s1, short_order_params, ok_short)
    IN  IF s1.exc # "" THEN RaiseOrderManagerError(s1)
        ELSE IF s2.exc # "" THEN RaiseOrderManagerError(s2)
        ELSE track_breakout_orders(s2, symbol, p, position_size, s1.ret, s2.ret)

\* the two submissions of place_breakout_orders: long first, then short; an
\* AlpacaAPIError of either is re-raised as OrderManagerError
submit_breakout_orders(s, symbol, p, position_size, ok_long, ok_short) ==
    LET long_order_params ==
            OrderParams(symbol, position_size, "buy", p.long_entry,
                        p.long_entry + p.take_profit_points,
                        p.long_entry - p.stop_loss_points)
        short_order_params ==
            OrderParams(symbol, position_size, "sell", p.short_entry,
                        p.short_entry - p.take_profit_points,
                        p.short_entry + p.stop_loss_points)
        s1 == api_submit_order(s, long_order_params, ok_long)
        s2 == api_submit_order(s1, short_order_params, ok_short)
    IN  IF s1.exc # "" THEN RaiseOrderManagerError(s1)
        ELSE IF s2.exc # "" THEN RaiseOrderManagerError(s2)
        ELSE track_breakout_orders(s2, symbol, p, position_size, s1.ret, s2.ret)

\* place_breakout_orders; r, d: the ledger and the date the risk checks see
place_breakout_orders(s, r, d, symbol, p, account_equity, ok_long, ok_short) ==
    IF ~can_trade(r, d, account_equity, 0) THEN RaiseOrderManagerError(s)
    ELSE LET long_stop_price == p.long_entry - p.stop_loss_points
             ps == calculate_position_size(account_equity, p.long_entry, long_stop_price)
         IN  IF ps.raised THEN RaiseOrderManagerError(s)
             ELSE IF ps.size <= 0 THEN RaiseOrderManagerError(s)
             ELSE submit_breakout_orders(s, symbol, p, ps.size, ok_long, ok_short)

\* OrderManager.cancel_order: True, or False when the gateway raised
cancel_order(s, order_id, ok) ==
    [api_cancel_order(s, order_id, ok) EXCEPT !.exc = ""]

NoSymbol == "None"

\* variant of cancel_symbol_pending that keeps the pair when a cancellation failed
cancel_symbol_pending_keeps_failed(s, symbol, ok_long, ok_short) ==
    IF TableHas(s.active, symbol)
    THEN LET orders == TableGet(s.active, symbol)
             s1 == cancel_order(s, orders.long_order_id, ok_long)
             s2 == cancel_order(s1, orders.short_order_id, ok_short)
         IN  IF \E i \in 1..Len(s2.calls) : ~s2.calls[i].ok
             THEN [s2 EXCEPT !.ret = 1, !.exc = ""]
             ELSE [s2 EXCEPT !.active = TableDel(@, symbol), !.ret = 1, !.exc = ""]
    ELSE [s EXCEPT !.ret = 1, !.exc = ""]

\* cancel_all_pending(symbol): both legs best-effort, then drop the pair
cancel_symbol_pending(s, symbol, ok_long, ok_short) ==
    IF TableHas(s.active, symbol)
    THEN LET orders == TableGet(s.active, symbol)
             s1 == IF orders.long_order_id # NoId
                   THEN cancel_order(s, orders.long_order_id, ok_long) ELSE s
             s2 == IF orders.short_order_id # NoId
                   THEN cancel_order(s1, orders.short_order_id, ok_short) ELSE s1
         IN  [s2 EXCEPT !.active = TableDel(@, symbol), !.ret = 1, !.exc = ""]
    ELSE [s EXCEPT !.ret = 1, !.exc = ""]

\* cancel_all_pending(): broker-side cancel-all, then clear the table; an
\* AlpacaAPIError is caught before the clear and the call returns False
cancel_every_pending(s, ok) ==
    LET s1 == api_cancel_all_orders(s, ok)
    IN  IF s1.exc # "" THEN [s1 EXCEPT !.ret = 0, !.exc = ""]
        ELSE [s1 EXCEPT !.active = << >>, !.ret = 1, !.exc = ""]

\* cancel_all_pending(symbol = None); ret 1 = True, 0 = False
cancel_all_pending(s, symbol, ok_long, ok_short) ==
    IF symbol # NoSymbol
    THEN cancel_symbol_pending(s, symbol, ok_long, ok_short)
    ELSE cancel_every_pending(s, ok_long)

\* variant of cleanup that cancels before it stops the monitoring loop
cleanup_cancel_first(s, joined, ok) ==
    LET s1 == cancel_all_pending(s, NoSymbol, ok, ok)
        s2 == stop_monitoring(s1, joined)
    IN  [s2 EXCEPT !.ret = NoId, !.exc = ""]

\* variant of cleanup that also empties the execution log
cleanup_clears_log(s, joined, ok) ==
    LET s1 == stop_monitoring(s, joined)
        s2 == cancel_all_pending(s1, NoSymbol, ok, ok)
    IN  [s2 EXCEPT !.executed_trades = << >>, !.ret = NoId, !.exc = ""]

\* cleanup: stop_monitoring, then cancel_all_pending(); nothing propagates
cleanup(s, joined, ok) ==
    LET s1 == stop_monitoring(s, joined)
        s2 == cancel_all_pending(s1, NoSymbol, ok, ok)
    IN  [s2 EXCEPT !.ret = NoId, !.exc = ""]

\* variant of has_active_orders that never sees a tracked pair
has_active_orders_never(t, symbol) == FALSE

\* has_active_orders(symbol = None)
has_active_orders(t, symbol) ==
    IF symbol # NoSymbol THEN TableHas(t, symbol) ELSE Len(t) > 0

\* _check_order_status: the broker's status, 'unknown' when the gateway raised
check_order_status(s, order_id, ok) ==
    LET s1 == api_get_order_status(s, order_id, ok)
    IN  IF s1.exc # "" THEN "unknown" ELSE s1.orders[order_id].status

\* variant of _handle_order_fill that records nothing when the sibling's cancel fails
handle_order_fill_cancel_blocks(s, orders, side, d, ok_fetch, ok_cancel) ==
    LET filled_order_id ==
            IF side = "long" THEN orders.long_order_id ELSE orders.short_order_id
        opposite_order_id ==
            IF side = "long" THEN orders.short_order_id ELSE orders.long_order_id
        s1 == api_get_order_status(s, filled_order_id, ok_fetch)
        entry_price == s1.orders[filled_order_id].filled_avg_price
        s2 == IF opposite_order_id # NoId
              THEN api_cancel_order(s1, opposite_order_id, ok_cancel) ELSE s1
        stop_loss == IF side = "long" THEN entry_price - orders.stop_loss_points
                     ELSE entry_price + orders.stop_loss_points
        take_profit == IF side = "long" THEN entry_price + orders.take_profit_points
                       ELSE entry_price - orders.take_profit_points
        trade_execution ==
            [order_id |-> filled_order_id, symbol |-> orders.symbol, side |-> side,
             quantity |-> orders.position_size, entry_price |-> entry_price,
             timestamp |-> d, stop_loss |-> stop_loss, take_profit |-> take_profit]
    IN  IF s1.exc # "" THEN [s1 EXCEPT !.exc = ""]
        ELSE IF s2.exc # "" THEN [s2 EXCEPT !.exc = ""]
        ELSE [s2 EXCEPT !.executed_trades = Append(@, trade_execution), !.exc = ""]

\* variant of _handle_order_fill that derives stop and target from the planned
\* trigger price of the filled side
handle_order_fill_planned_price(s, orders, side, d, ok_fetch, ok_cancel) ==
    LET filled_order_id ==
            IF side = "long" THEN orders.long_order_id ELSE orders.short_order_id
        opposite_order_id ==
            IF side = "long" THEN orders.short_order_id ELSE orders.long_order_id
        s1 == api_get_order_status(s, filled_order_id, ok_fetch)
        entry_price == s1.orders[filled_order_id].filled_avg_price
        s2 == IF opposite_order_id # NoId
              THEN cancel_order(s1, opposite_order_id, ok_cancel) ELSE s1
        stop_loss == IF side = "long" THEN orders.long_entry - orders.stop_loss_points
                     ELSE orders.short_entry + orders.stop_loss_points
        take_profit == IF side = "long" THEN orders.long_entry + orders.take_profit_points
                       ELSE orders.short_entry - orders.take_profit_points
        trade_execution ==
            [order_id |-> filled_order_id, symbol |-> orders.symbol, side |-> side,
             quantity |-> orders.position_size, entry_price |-> entry_price,
             timestamp |-> d, stop_loss |-> stop_loss, take_profit |-> take_profit]
    IN  IF s1.exc # "" THEN [s1 EXCEPT !.exc = ""]
        ELSE [s2 EXCEPT !.executed_trades = Append(@, trade_execution), !.exc = ""]

\* _handle_order_fill: fetch the fill price, cancel the sibling (best effort),
\* append the TradeExecution; any exception is logged and swallowed
handle_order_fill(s, orders, side, d, ok_fetch, ok_cancel) ==
    LET filled_order_id ==
            IF side = "long" THEN orders.long_order_id ELSE orders.short_order_id
        opposite_order_id ==
            IF side = "long" THEN orders.short_order_id ELSE orders.long_order_id
        s1 == api_get_order_status(s, filled_order_id, ok_fetch)
        entry_price == s1.orders[filled_order_id].filled_avg_price
        s2 == IF opposite_order_id # NoId
              THEN cancel_order(s1, opposite_order_id, ok_cancel) ELSE s1
        stop_loss == IF side = "long" THEN entry_price - orders.stop_loss_points
                     ELSE entry_price + orders.stop_loss_points
        take_profit == IF side = "long" THEN entry_price + orders.take_profit_points
                       ELSE entry_price - orders.take_profit_points
        trade_execution ==
            [order_id |-> filled_order_id, symbol |-> orders.symbol, side |-> side,
             quantity |-> orders.position_size, entry_price |-> entry_price,
             timestamp |-> d, stop_loss |-> stop_loss, take_profit |-> take_profit]
    IN  IF s1.exc # "" THEN [s1 EXCEPT !.exc = ""]
        ELSE [s2 EXCEPT !.executed_trades = Append(@, trade_execution), !.exc = ""]

\* the body of the for loop of _monitor_orders for one (symbol, orders) item;
\* rem = symbols_to_remove; oc = the gateway's answers for this item
monitor_item(s, rem, orders, d, oc) ==
    LET long_status ==
            IF orders.long_order_id # NoId
            THEN check_order_status(s, orders.long_order_id, oc.long_ok) ELSE "unknown"
        s1 == IF orders.long_order_id # NoId
              THEN [api_get_order_status(s, orders.long_order_id, oc.long_ok)
                        EXCEPT !.exc = ""]
              ELSE s
        short_status ==
            IF orders.short_order_id # NoId
            THEN check_order_status(s1, orders.short_order_id, oc.short_ok) ELSE "unknown"
        s2 == IF orders.short_order_id # NoId
              THEN [api_get_order_status(s1, orders.short_order_id, oc.short_ok)
                        EXCEPT !.exc = ""]
              ELSE s1
    IN  IF long_status = "filled"
        THEN [s |-> handle_order_fill(s1, orders, "long", d, oc.fetch_ok, oc.cancel_ok),
              rem |-> Append(rem, orders.symbol)]
        ELSE IF short_status = "filled"
        THEN [s |-> handle_order_fill(s2, orders, "short", d, oc.fetch_ok, oc.cancel_ok),
              rem |-> Append(rem, orders.symbol)]
        ELSE [s |-> s2, rem |-> rem]

\* for symbol, orders in self.active_breakout_orders.items(): items i.. of the table
RECURSIVE monitor_scan(_, _, _, _, _, _)
monitor_scan(s, rem, items, i, d, oc) ==
    IF i > Len(items) THEN [s |-> s, rem |-> rem]
    ELSE LET r == monitor_item(s, rem, items[i], d, oc)
         IN  monitor_scan(r.s, r.rem, items, i + 1, d, oc)

\* variant of the pass in which a failed gateway call ends the loop
monitor_pass_dies_on_error(s, d, oc) ==
    LET r == monitor_scan(s, << >>, s.active, 1, d, oc)
        removed == { r.rem[i] : i \in 1..Len(r.rem) }
        s1 == [r.s EXCEPT !.active = SelectSeq(@, LAMBDA q : q.symbol \notin removed)]
        failed == \E i \in 1..Len(r.s.calls) : ~r.s.calls[i].ok
    IN  IF failed THEN [r.s EXCEPT !.monitor_threads = @ - 1]
        ELSE IF Len(s1.active) = 0
        THEN [s1 EXCEPT !.monitoring_active = FALSE, !.monitor_threads = @ - 1]
        ELSE s1

\* one pass of the while loop of _monitor_orders with the flag set: scan, drop the
\* filled symbols, stop (flag off, thread ends) when the table is empty, else sleep
monitor_pass(s, d, oc) ==
    LET r == monitor_scan(s, << >>, s.active, 1, d, oc)
        removed == { r.rem[i] : i \in 1..Len(r.rem) }
        s1 == [r.s EXCEPT !.active = SelectSeq(@, LAMBDA q : q.symbol \notin removed)]
    IN  IF Len(s1.active) = 0
        THEN [s1 EXCEPT !.monitoring_active = FALSE, !.monitor_threads = @ - 1]
        ELSE s1

\* _monitor_orders, one evaluation of `while self.monitoring_active` and its body
monitor_orders(s, d, oc) ==
    IF ~s.monitoring_active
    THEN [s EXCEPT !.monitor_threads = @ - 1]
    ELSE monitor_pass(s, d, oc)

\* the first executed trade of the symbol (the for loop of on_trade_exit breaks on
\* the first match), 0 when there is none
first_trade_index(executed, symbol) ==
    IF \E i \in 1..Len(executed) : executed[i].symbol = symbol
    THEN CHOOSE i \in 1..Len(executed) :
            /\ executed[i].symbol = symbol
            /\ \A j \in 1..(i - 1) : executed[j].symbol # symbol
    ELSE 0

\* on_trade_exit: the ledger after the call
on_trade_exit(r, d, executed, symbol, exit_price, pnl) ==
    LET i == first_trade_index(executed, symbol)
    IN  IF i = 0 THEN r
        ELSE record_trade_result(r, d, pnl, symbol, executed[i].quantity,
                                 executed[i].entry_price, exit_price)

----------------------------------------------------------------------------
(* Breakout calculator: modules/opening_range_breakout.py *)

\* StrategyConfig as bot.py builds it: offset 15, stop 25, R:R 2, the rest defaults;
\* dynamic_stop_multiplier 1.5 = 3 / 2
BotConfig ==
    [breakout_offset_points |-> 15, stop_loss_points |-> 25, risk_reward_ratio |-> 2,
     min_range_size |-> 5, max_range_size |-> 100, use_dynamic_stops |-> FALSE,
     dynamic_stop_multiplier_num |-> 3, dynamic_stop_multiplier_den |-> 2]

Max(a, b) == IF a > b THEN a ELSE b

\* variant of _is_valid_range whose lower boundary is inclusive
is_valid_range_min_inclusive(config, range_size) ==
    config.min_range_size <= range_size /\ range_size <= config.max_range_size

\* variant of _is_valid_range that accepts every range
is_valid_range_any(config, range_size) == TRUE

\* _is_valid_range
is_valid_range(config, range_size) ==
    config.min_range_size < range_size /\ range_size <= config.max_range_size

\* variant of _calculate_stop_distance without the clamp
calculate_stop_distance_unclamped(config, range_size) ==
    IF config.use_dynamic_stops
    THEN (range_size * config.dynamic_stop_multiplier_num)
             \div config.dynamic_stop_multiplier_den
    ELSE config.stop_loss_points

\* _calculate_stop_distance (exact for the range sizes whose product with the
\* multiplier is whole)
calculate_stop_distance(config, range_size) ==
    IF config.use_dynamic_stops
    THEN LET dynamic_stop == (range_size * config.dynamic_stop_multiplier_num)
                                 \div config.dynamic_stop_multiplier_den
         IN  Max(Min(dynamic_stop, 50), 15)
    ELSE config.stop_loss_points

\* get_stop_loss_points / get_take_profit_points
get_stop_loss_points(config, range_size) == calculate_stop_distance(config, range_size)
get_take_profit_points(config, stop_loss_points) ==
    stop_loss_points * config.risk_reward_ratio

\* variant of calculate_breakout_levels whose targets are taken from the fixed
\* stop_loss_points also under dynamic stops
calculate_breakout_levels_fixed_target(config, opening_high, opening_low) ==
    LET range_size == opening_high - opening_low
        long_entry == opening_high + config.breakout_offset_points
        short_entry == opening_low - config.breakout_offset_points
        stop_distance == calculate_stop_distance(config, range_size)
        take_profit_distance == config.stop_loss_points * config.risk_reward_ratio
    IN  [raised |-> ~is_valid_range(config, range_size),
         opening_high |-> opening_high, opening_low |-> opening_low,
         range_size |-> range_size,
         long_entry |-> long_entry, short_entry |-> short_entry,
         long_stop_loss |-> long_entry - stop_distance,
         short_stop_loss |-> short_entry + stop_distance,
         long_take_profit |-> long_entry + take_profit_distance,
         short_take_profit |-> short_entry - take_profit_distance]

\* variant of calculate_breakout_levels whose short target lies twice as far
\* from the entry as the long one
calculate_breakout_levels_short_target_doubled(config, opening_high, opening_low) ==
    LET range_size == opening_high - opening_low
        long_entry == opening_high + config.breakout_offset_points
        short_entry == opening_low - config.breakout_offset_points
        stop_distance == calculate_stop_distance(config, range_size)
        take_profit_distance == stop_distance * config.risk_reward_ratio
    IN  [raised |-> ~is_valid_range(config, range_size),
         opening_high |-> opening_high, opening_low |-> opening_low,
         range_size |-> range_size,
         long_entry |-> long_entry, short_entry |-> short_entry,
         long_stop_loss |-> long_entry - stop_distance,
         short_stop_loss |-> short_entry + stop_distance,
         long_take_profit |-> long_entry + take_profit_distance,
         short_take_profit |-> short_entry - 2 * take_profit_distance]

\* calculate_breakout_levels: raised = ValueError on an invalid range
calculate_breakout_levels(config, opening_high, opening_low) ==
    LET range_size == opening_high - opening_low
        long_entry == opening_high + config.breakout_offset_points
        short_entry == opening_low - config.breakout_offset_points
        stop_distance == calculate_stop_distance(config, range_size)
        take_profit_distance == stop_distance * config.risk_reward_ratio
    IN  [raised |-> ~is_valid_range(config, range_size),
         opening_high |-> opening_high, opening_low |-> opening_low,
         range_size |-> range_size,
         long_entry |-> long_entry, short_entry |-> short_entry,
         long_stop_loss |-> long_entry - stop_distance,
         short_stop_loss |-> short_entry + stop_distance,
         long_take_profit |-> long_entry + take_profit_distance,
         short_take_profit |-> short_entry - take_profit_distance]

\* should_take_trade without a current_time
should_take_trade(config, breakout_levels) ==
    is_valid_range(config, breakout_levels.range_size)

\* strategy configurations: bot.py's and the default among them, fixed and dynamic
\* stops, two range windows
StrategyConfigs ==
    { [breakout_offset_points |-> offset, stop_loss_points |-> stop,
       risk_reward_ratio |-> ratio, min_range_size |-> window[1],
       max_range_size |-> window[2], use_dynamic_stops |-> dynamic,
       dynamic_stop_multiplier_num |-> 3, dynamic_stop_multiplier_den |-> 2] :
         offset \in {15, 10}, stop \in {25, 40}, ratio \in {2, 3},
         window \in { << 5, 100 >>, << 10, 60 >> }, dynamic \in BOOLEAN }

\* opening range sizes: the windows' boundaries and their neighbours, and sizes
\* whose dynamic stop is below, inside and above the clamp; the product of each
\* with the multiplier is whole or lies outside the clamp
RangeSizes == {2, 5, 6, 10, 12, 20, 55, 60, 100, 101}
\* the low of the opening range
RangeLow == 14980

\* what a call that raised leaves in place of levels
NoLevels ==
    [raised |-> TRUE, opening_high |-> 0, opening_low |-> 0, range_size |-> 0,
     long_entry |-> 0, short_entry |-> 0, long_stop_loss |-> 0, short_stop_loss |-> 0,
     long_take_profit |-> 0, short_take_profit |-> 0]

\* opening ranges the market data can show: 55 points (valid), 2 points (too
\* small), 5 points (min_range_size), 100 points (max_range_size), 101 points
OpeningRanges ==
    { [high |-> 15035, low |-> 14980], [high |-> 15000, low |-> 14998],
      [high |-> 15005, low |-> 15000], [high |-> 15100, low |-> 15000],
      [high |-> 15101, low |-> 15000] }


----------------------------------------------------------------------------
(* Retry policy of the gateway: AlpacaAPI._retry_api_call *)

\* max_retries: 3 by default, 2 for submit_order, cancel_order, cancel_all_orders
MaxRetries == {2, 3}

\* status_code of an APIError that carries none
NoStatus == 0

\* what one attempt of the underlying broker call can do: return, raise an
\* APIError (status code; retryable_text = its message holds one of the
\* retryable patterns), or raise another exception
AttemptOutcomes ==
    { [kind |-> "ok", status_code |-> NoStatus, retryable_text |-> FALSE],
      [kind |-> "Exception", status_code |-> NoStatus, retryable_text |-> FALSE] }
    \cup { [kind |-> "APIError", status_code |-> code, retryable_text |-> text] :
              code \in {NoStatus, 400, 404, 429, 500}, text \in BOOLEAN }

\* _is_retryable_error
is_retryable_error(error) ==
    IF error.status_code # NoStatus
          /\ (error.status_code >= 500 \/ error.status_code = 429)
    THEN TRUE
    ELSE IF error.status_code # NoStatus
               /\ 400 <= error.status_code /\ error.status_code < 500
    THEN FALSE
    ELSE error.retryable_text

\* variant of the loop body that gives up one attempt early when an APIError is
\* not retryable
retry_attempt_gives_up_early(max_retries, attempt, outcome) ==
    IF outcome.kind = "ok"
    THEN [done |-> TRUE, result |-> "returned", wait |-> 0]
    ELSE IF outcome.kind = "APIError"
    THEN IF is_retryable_error(outcome) /\ attempt < max_retries - 1
         THEN [done |-> FALSE, result |-> "", wait |-> Min(2 ^ attempt, 30)]
         ELSE [done |-> TRUE, result |-> "AlpacaAPIError", wait |-> 0]
    ELSE IF attempt = max_retries - 1
         THEN [done |-> TRUE, result |-> "AlpacaAPIError", wait |-> 0]
         ELSE [done |-> FALSE, result |-> "", wait |-> 2 ^ attempt]

\* one iteration of the for loop of _retry_api_call: attempt = its 0-based number,
\* outcome = what func did; done = the call has returned or raised, wait = the
\* seconds slept before the next iteration
retry_attempt(max_retries, attempt, outcome) ==
    IF outcome.kind = "ok"
    THEN [done |-> TRUE, result |-> "returned", wait |-> 0]
    ELSE IF outcome.kind = "APIError"
    THEN IF is_retryable_error(outcome) /\ attempt < max_retries - 1
         THEN [done |-> FALSE, result |-> "", wait |-> Min(2 ^ attempt, 30)]
         ELSE IF attempt = max_retries - 1
         THEN [done |-> TRUE, result |-> "AlpacaAPIError", wait |-> 0]
         ELSE [done |-> FALSE, result |-> "", wait |-> 0]
    ELSE IF attempt = max_retries - 1
         THEN [done |-> TRUE, result |-> "AlpacaAPIError", wait |-> 0]
         ELSE [done |-> FALSE, result |-> "", wait |-> 2 ^ attempt]

----------------------------------------------------------------------------
(* State *)

VARIABLES
    today,              \* date.today()
    rm,                 \* RiskManager: current_date, daily_pnl, trades_today, trade_history
    saved,              \* data/risk_manager_data.json
    active,             \* OrderManager.active_breakout_orders
    executed_trades,    \* OrderManager.executed_trades
    monitoring_active,  \* OrderManager.monitoring_active
    monitor_threads,    \* number of _monitor_orders loops alive
    orders,             \* the broker's order book, by order id
    next_id,            \* the id the broker gives to the next accepted order
    last_op,            \* the last step taken: handler, arguments, result, calls made
    faults,             \* handler runs so far in which a gateway call was made to fail
    bot,                \* NASDAQBreakoutBot: position in run(), running flag, what ran
    monitor_thread      \* the locals of the _monitor_orders loop when it runs step by step

vars == << today, rm, saved, active, executed_trades, monitoring_active,
           monitor_threads, orders, next_id, last_op, faults, bot, monitor_thread >>

ledger_vars == << rm, saved >>
manager_vars == << active, executed_trades, monitoring_active, monitor_threads,
                   monitor_thread >>
broker_vars == << orders, next_id >>

\* amount: the account equity of a placement or risk check, the pnl of a trade exit
Op(name, symbol, amount, result, calls) ==
    [name |-> name, symbol |-> symbol, amount |-> amount, result |-> result,
     calls |-> calls]

\* the step of a risk check: also its potential_loss; calls = the checks evaluated
OpRisk(name, account_equity, potential_loss, result, calls) ==
    [name |-> name, symbol |-> NoSymbol, amount |-> account_equity, result |-> result,
     calls |-> calls, potential_loss |-> potential_loss]

\* a call of calculate_position_size: its arguments, and once it has run its outcome
OpSizing(name, account_equity, entry_price, stop_price, result, size) ==
    [name |-> name, symbol |-> NoSymbol, amount |-> account_equity, result |-> result,
     calls |-> << >>, entry_price |-> entry_price, stop_price |-> stop_price,
     size |-> size]

\* a run of execute_trading_strategy: also the opening range the data showed
OpStrategy(name, symbol, account_equity, opening_high, opening_low, result, calls) ==
    [name |-> name, symbol |-> symbol, amount |-> account_equity, result |-> result,
     calls |-> calls, opening_high |-> opening_high, opening_low |-> opening_low]

\* a call into the strategy: its configuration and arguments, and once it has run
\* its outcome
OpLevels(name, config, opening_high, opening_low, result, levels, stop_distance) ==
    [name |-> name, symbol |-> NoSymbol, amount |-> 0, result |-> result,
     calls |-> << >>, config |-> config, opening_high |-> opening_high,
     opening_low |-> opening_low, levels |-> levels, stop_distance |-> stop_distance]

\* a call through _retry_api_call: the outcomes of the attempts made so far, the
\* seconds slept after each, and the result once it has returned or raised
OpRetry(name, max_retries, outcomes, waits, result) ==
    [name |-> name, symbol |-> NoSymbol, amount |-> 0, result |-> result,
     calls |-> << >>, max_retries |-> max_retries, outcomes |-> outcomes,
     waits |-> waits]

\* the handler-local view of the state, no call made yet
St ==
    [orders |-> orders, next_id |-> next_id, active |-> active,
     executed_trades |-> executed_trades, monitoring_active |-> monitoring_active,
     monitor_threads |-> monitor_threads, calls |-> << >>, ret |-> NoId, exc |-> ""]

\* write a handler's result back
CommitManager(s) ==
    /\ orders' = s.orders
    /\ next_id' = s.next_id
    /\ active' = s.active
    /\ executed_trades' = s.executed_trades
    /\ monitoring_active' = s.monitoring_active
    /\ monitor_threads' = s.monitor_threads

\* write back the result of a handler that runs outside the monitor thread
Commit(s) ==
    /\ CommitManager(s)
    /\ monitor_thread' = monitor_thread

\* the _monitor_orders loop at its loop head (or asleep): pc = position in the loop,
\* di_used / di_pos = the size the dict iterator noted and the entries it passed,
\* item = the (symbol, orders) item taken, side = the side seen filled,
\* rem = symbols_to_remove
MonitorIdle ==
    [pc |-> "idle", di_used |-> 0, di_pos |-> 0, item |-> NoOrder, side |-> "",
     rem |-> << >>]

\* a NASDAQBreakoutBot before run(); earlier_executions = the TradeExecutions that
\* earlier processes of the day appended (a new process starts with an empty log)
BotIdle == [pc |-> "not_started", running |-> TRUE, initialized |-> FALSE,
            placed |-> FALSE, cleaned |-> FALSE, earlier_executions |-> 0]

Init ==
    /\ today = 1
    /\ rm = NewLedger
    /\ saved = NoFile
    /\ active = << >>
    /\ executed_trades = << >>
    /\ monitoring_active = FALSE
    /\ monitor_threads = 0
    /\ orders = [i \in OrderIds |-> NoOrder]
    /\ next_id = 1
    /\ last_op = Op("init", NoSymbol, 0, "", << >>)
    /\ faults = 0
    /\ bot = BotIdle
    /\ monitor_thread = MonitorIdle

----------------------------------------------------------------------------
(* Actions: the OrderManager's and RiskManager's operations called by a client *)

\* the gateway's answers to one handler run: all succeed, or the run uses up one
\* of the runs in which calls fail: MaxFaults of them under a free client, one
\* more in a session of the bot, whose runs are short
FaultBudget == IF bot.pc = "not_started" THEN MaxFaults ELSE MaxFaults + 1

Gateway(oks) ==
    LET failing == \E i \in 1..Len(oks) : ~oks[i]
    IN  /\ failing => faults < FaultBudget
        /\ faults' = IF failing THEN faults + 1 ELSE faults

\* a placement needs two order ids and may start a monitor thread
PlaceEnabled ==
    /\ next_id + 1 <= MaxOrders
    /\ monitoring_active \/ monitor_threads < MaxThreads

PlaceBreakoutOrders(symbol, p, account_equity, ok_long, ok_short) ==
    /\ PlaceEnabled
    /\ Gateway(<< ok_long, ok_short >>)
    /\ LET s == place_breakout_orders(St, rm, today, symbol, p, account_equity,
                                      ok_long, ok_short)
       IN  /\ Commit(s)
           /\ last_op' = Op("place_breakout_orders", symbol, account_equity,
                            IF s.exc # "" THEN s.exc ELSE "ok", s.calls)
    /\ rm' = ensure_current_date(rm, today)
    /\ saved' = file_after_ensure(rm, today, saved)
    /\ UNCHANGED << today, bot >>

CancelAllPending(symbol, ok_long, ok_short) ==
    /\ Gateway(<< ok_long, ok_short >>)
    /\ LET s == cancel_all_pending(St, symbol, ok_long, ok_short)
       IN  /\ Commit(s)
           /\ last_op' = Op("cancel_all_pending", symbol, 0,
                            IF s.ret = 1 THEN "True" ELSE "False", s.calls)
    /\ UNCHANGED << today, rm, saved, bot >>

Cleanup(joined, ok) ==
    /\ Gateway(<< ok >>)
    /\ LET s == cleanup(St, joined, ok)
       IN  /\ Commit(s)
           /\ last_op' = Op("cleanup", NoSymbol, 0,
                            IF s.exc # "" THEN s.exc ELSE "None", s.calls)
    /\ UNCHANGED << today, rm, saved, bot >>

OnTradeExit(symbol, exit_price, pnl) ==
    /\ Len(rm.trade_history) < MaxRecords
    /\ rm' = on_trade_exit(rm, today, executed_trades, symbol, exit_price, pnl)
    /\ saved' = IF first_trade_index(executed_trades, symbol) = 0 THEN saved
                ELSE save_daily_data(rm')
    /\ last_op' = Op("on_trade_exit", symbol, pnl, "None", << >>)
    /\ UNCHANGED << today, manager_vars, broker_vars, faults, bot >>

CanTrade(account_equity, potential_loss) ==
    /\ rm' = ensure_current_date(rm, today)
    /\ saved' = file_after_ensure(rm, today, saved)
    /\ last_op' = OpRisk("can_trade", account_equity, potential_loss,
                         IF can_trade(rm, today, account_equity, potential_loss)
                         THEN "True" ELSE "False",
                         can_trade_checks(rm, today, account_equity, potential_loss))
    /\ UNCHANGED << today, manager_vars, broker_vars, faults, bot >>

(* The RiskManager's operations called by a client of the ledger *)

\* check_trade_count(): lazy rollover, then the comparison
CheckTradeCount ==
    /\ rm' = ensure_current_date(rm, today)
    /\ saved' = file_after_ensure(rm, today, saved)
    /\ last_op' = OpRisk("check_trade_count", 0, 0,
                         IF check_trade_count(rm') THEN "True" ELSE "False", << >>)
    /\ UNCHANGED << today, manager_vars, broker_vars, faults, bot >>

\* check_daily_loss(account_equity, potential_loss): lazy rollover, then the comparison
CheckDailyLoss(account_equity, potential_loss) ==
    /\ rm' = ensure_current_date(rm, today)
    /\ saved' = file_after_ensure(rm, today, saved)
    /\ last_op' = OpRisk("check_daily_loss", account_equity, potential_loss,
                         IF check_daily_loss(rm', account_equity, potential_loss)
                         THEN "True" ELSE "False", << >>)
    /\ UNCHANGED << today, manager_vars, broker_vars, faults, bot >>

\* record_trade_result(pnl, ...): accumulate, append, save
RecordTradeResult(pnl) ==
    /\ Len(rm.trade_history) < MaxRecords
    /\ rm' = record_trade_result(rm, today, pnl, BotSymbol, RecordedQuantity,
                                 RecordedEntry, RecordedExit)
    /\ saved' = save_daily_data(rm')
    /\ last_op' = OpRisk("record_trade_result", pnl, 0, "None", << >>)
    /\ UNCHANGED << today, manager_vars, broker_vars, faults, bot >>

\* the process ends and a new one constructs its RiskManager and OrderManager:
\* the ledger is what _load_daily_data finds, the order manager is empty, the
\* file and the broker's order book are what they were
Restart ==
    /\ rm' = load_daily_data(saved, today)
    /\ active' = << >>
    /\ executed_trades' = << >>
    /\ monitoring_active' = FALSE
    /\ monitor_threads' = 0
    /\ monitor_thread' = MonitorIdle
    /\ last_op' = Op("restart", NoSymbol, 0, "", << >>)
    /\ UNCHANGED << today, saved, broker_vars, faults, bot >>

(* The background fill monitor *)

Outcomes == [long_ok : BOOLEAN, short_ok : BOOLEAN, fetch_ok : BOOLEAN,
             cancel_ok : BOOLEAN]

\* variant of MonitorOrders in which handling a fill already counts a trade in the ledger
MonitorOrders_counts_fill(oc) ==
    /\ monitor_threads > 0
    /\ Gateway(<< oc.long_ok, oc.short_ok, oc.fetch_ok, oc.cancel_ok >>)
    /\ LET s == monitor_orders(St, today, oc)
       IN  /\ Commit(s)
           /\ last_op' = Op("monitor_orders", NoSymbol, 0,
                            IF monitoring_active THEN "pass" ELSE "exit", s.calls)
           /\ rm' = IF Len(s.executed_trades) > Len(executed_trades)
                    THEN [rm EXCEPT !.trades_today = @ + 1] ELSE rm
    /\ UNCHANGED << today, saved, bot >>

MonitorOrders(oc) ==
    /\ monitor_threads > 0
    /\ Gateway(<< oc.long_ok, oc.short_ok, oc.fetch_ok, oc.cancel_ok >>)
    /\ LET s == monitor_orders(St, today, oc)
       IN  /\ Commit(s)
           /\ last_op' = Op("monitor_orders", NoSymbol, 0,
                            IF monitoring_active THEN "pass" ELSE "exit", s.calls)
    /\ UNCHANGED << today, rm, saved, bot >>

(* The background fill monitor step by step: the thread is between two of     *)
(* these steps while it waits for the gateway or is descheduled. The table    *)
(* is iterated with the dict's own iterator, which notes the size at the      *)
(* start, passes the entries in insertion order and raises RuntimeError when  *)
(* the size has changed at a next(); entries are told apart by their position *)
(* in the table, which is exact as long as nothing is inserted after a        *)
(* removal.                                                                   *)

\* while self.monitoring_active: the thread ends when the flag is off, else it
\* empties symbols_to_remove and starts the iteration of the table
MonitorLoopHead ==
    /\ monitor_threads > 0
    /\ monitor_thread.pc = "idle"
    /\ IF ~monitoring_active
       THEN /\ monitor_threads' = monitor_threads - 1
            /\ monitor_thread' = MonitorIdle
       ELSE /\ monitor_threads' = monitor_threads
            /\ monitor_thread' = [MonitorIdle EXCEPT !.pc = "iterating",
                                                     !.di_used = Len(active)]
    /\ last_op' = Op("monitor_loop_head", NoSymbol, 0,
                     IF monitoring_active THEN "pass" ELSE "exit", << >>)
    /\ UNCHANGED << today, rm, saved, active, executed_trades, monitoring_active,
                    broker_vars, faults, bot >>

\* for symbol, orders in self.active_breakout_orders.items(): the iterator's next()
MonitorIterNext ==
    /\ monitor_threads > 0
    /\ monitor_thread.pc = "iterating"
    /\ IF Len(active) # monitor_thread.di_used
       THEN \* RuntimeError, caught by the loop's except clause: sleep, loop again
            /\ monitor_thread' = MonitorIdle
            /\ last_op' = Op("monitor_iter_next", NoSymbol, 0, "RuntimeError", << >>)
       ELSE IF monitor_thread.di_pos < Len(active)
       THEN /\ monitor_thread' = [monitor_thread EXCEPT
                                     !.pc = "checking",
                                     !.di_pos = @ + 1,
                                     !.item = active[monitor_thread.di_pos + 1]]
            /\ last_op' = Op("monitor_iter_next",
                             active[monitor_thread.di_pos + 1].symbol, 0, "item", << >>)
       ELSE /\ monitor_thread' = [monitor_thread EXCEPT !.pc = "sweeping"]
            /\ last_op' = Op("monitor_iter_next", NoSymbol, 0, "StopIteration", << >>)
    /\ UNCHANGED << today, rm, saved, active, executed_trades, monitoring_active,
                    monitor_threads, broker_vars, faults, bot >>

\* the status checks of the item taken: long first, short when long is not filled
MonitorCheckStatus ==
    /\ monitor_threads > 0
    /\ monitor_thread.pc = "checking"
    /\ LET item == monitor_thread.item
           long_status ==
               IF item.long_order_id # NoId
               THEN check_order_status(St, item.long_order_id, TRUE) ELSE "unknown"
           short_status ==
               IF item.short_order_id # NoId
               THEN check_order_status(St, item.short_order_id, TRUE) ELSE "unknown"
           side == IF long_status = "filled" THEN "long"
                   ELSE IF short_status = "filled" THEN "short" ELSE ""
       IN  /\ monitor_thread' = [monitor_thread EXCEPT
                                    !.pc = IF side # "" THEN "handling" ELSE "iterating",
                                    !.side = side]
           /\ last_op' = Op("monitor_check_status", item.symbol, 0,
                            IF side # "" THEN "filled" ELSE "open", << >>)
    /\ UNCHANGED << today, rm, saved, active, executed_trades, monitoring_active,
                    monitor_threads, broker_vars, faults, bot >>

\* _handle_order_fill(orders, side) on the item taken, then
\* symbols_to_remove.append(symbol) and continue
MonitorHandleFill ==
    /\ monitor_threads > 0
    /\ monitor_thread.pc = "handling"
    /\ LET s == handle_order_fill(St, monitor_thread.item, monitor_thread.side,
                                  today, TRUE, TRUE)
       IN  /\ CommitManager(s)
           /\ last_op' = Op("monitor_handle_fill", monitor_thread.item.symbol, 0,
                            monitor_thread.side, s.calls)
    /\ monitor_thread' = [monitor_thread EXCEPT
                             !.pc = "iterating",
                             !.rem = Append(@, monitor_thread.item.symbol)]
    /\ UNCHANGED << today, rm, saved, faults, bot >>

\* after the for loop: drop the symbols to remove that are still tracked, then
\* test `if not self.active_breakout_orders`: with an empty table the thread goes
\* on to stop itself, else it sleeps
MonitorSweep ==
    /\ monitor_threads > 0
    /\ monitor_thread.pc = "sweeping"
    /\ LET removed == { monitor_thread.rem[i] : i \in 1..Len(monitor_thread.rem) }
           kept == SelectSeq(active, LAMBDA q : q.symbol \notin removed)
       IN  /\ active' = kept
           /\ monitor_thread' = IF Len(kept) = 0
                                THEN [MonitorIdle EXCEPT !.pc = "stopping"]
                                ELSE MonitorIdle
           /\ last_op' = Op("monitor_sweep", NoSymbol, 0,
                            IF Len(kept) = 0 THEN "empty" ELSE "sleep", << >>)
    /\ UNCHANGED << today, rm, saved, executed_trades, monitoring_active,
                    monitor_threads, broker_vars, faults, bot >>

\* the self-stop after the table was seen empty: self.monitoring_active = False
\* and break, which ends the thread
MonitorSelfStop ==
    /\ monitor_threads > 0
    /\ monitor_thread.pc = "stopping"
    /\ monitoring_active' = FALSE
    /\ monitor_threads' = monitor_threads - 1
    /\ monitor_thread' = MonitorIdle
    /\ last_op' = Op("monitor_self_stop", NoSymbol, 0, "exit", << >>)
    /\ UNCHANGED << today, rm, saved, active, executed_trades, broker_vars, faults,
                    bot >>

(* The environment: the market fills a live entry order, the calendar advances *)

BrokerFill(order_id, slip) ==
    /\ orders[order_id].status = "live"
    /\ orders' = [orders EXCEPT
                    ![order_id].status = "filled",
                    ![order_id].filled_avg_price =
                        IF orders[order_id].side = "buy"
                        THEN orders[order_id].stop_price + slip
                        ELSE orders[order_id].stop_price - slip]
    /\ last_op' = Op("broker_fill", orders[order_id].symbol, 0, "", << >>)
    /\ UNCHANGED << today, rm, saved, manager_vars, next_id, faults, bot >>

DayTick ==
    /\ today < MaxDay
    /\ today' = today + 1
    /\ last_op' = Op("day_tick", NoSymbol, 0, "", << >>)
    /\ UNCHANGED << rm, saved, manager_vars, broker_vars, faults, bot >>

\* the process is next used more than history_days days later
DayJump ==
    /\ today <= MaxDay
    /\ today' = today + history_days + 1
    /\ last_op' = Op("day_jump", NoSymbol, 0, "", << >>)
    /\ UNCHANGED << rm, saved, manager_vars, broker_vars, faults, bot >>

\* the order lifecycle within one day: a client drives the OrderManager freely,
\* the market fills orders, the monitor polls, and the gateway may fail
Next ==
    \/ \E symbol \in Symbols, p \in PlaceInputs, e \in Equities,
          ok_long \in BOOLEAN, ok_short \in BOOLEAN :
          PlaceBreakoutOrders(symbol, p, e, ok_long, ok_short)
    \/ \E symbol \in Symbols \cup {NoSymbol}, ok_long \in BOOLEAN, ok_short \in BOOLEAN :
          CancelAllPending(symbol, ok_long, ok_short)
    \/ \E joined \in BOOLEAN, ok \in BOOLEAN : Cleanup(joined, ok)
    \/ \E oc \in Outcomes : MonitorOrders(oc)
    \/ \E i \in OrderIds, slip \in Slippages : BrokerFill(i, slip)

Spec == Init /\ [][Next]_vars

\* the gateway answers every call of a monitor pass
AllOk == [long_ok |-> TRUE, short_ok |-> TRUE, fetch_ok |-> TRUE, cancel_ok |-> TRUE]

\* the risk ledger over several days: trades are placed, filled and recorded
\* through a gateway that answers every call, and the calendar advances
NextLedger ==
    \/ \E symbol \in TradedSymbols, p \in PlaceInputs, e \in Equities :
          PlaceBreakoutOrders(symbol, p, e, TRUE, TRUE)
    \/ \E symbol \in TradedSymbols, x \in ExitPrices, pnl \in PnLs : OnTradeExit(symbol, x, pnl)
    \/ \E e \in Equities : CanTrade(e, 0)
    \/ MonitorOrders(AllOk)
    \/ \E symbol \in TradedSymbols : CancelAllPending(symbol, TRUE, TRUE)
    \/ \E joined \in BOOLEAN : Cleanup(joined, TRUE)
    \/ \E i \in OrderIds, slip \in Slippages : BrokerFill(i, slip)
    \/ DayTick

SpecLedger == Init /\ [][NextLedger]_vars

\* the risk ledger driven directly: results are recorded, the limits are checked,
\* the calendar advances and the process restarts
NextRisk ==
    \/ \E pnl \in PnLs : RecordTradeResult(pnl)
    \/ CheckTradeCount
    \/ \E e \in RiskEquities, pl \in PotentialLosses : CheckDailyLoss(e, pl)
    \/ \E e \in RiskEquities, pl \in PotentialLosses : CanTrade(e, pl)
    \/ Restart
    \/ DayTick
    \/ DayJump

SpecRisk == Init /\ [][NextRisk]_vars

\* one session of a client next to the running monitor thread: the pair is placed
\* once and, while the thread steps through its passes, the market fills orders
\* and the client cancels and cleans up; cleanup's join succeeds only on a thread
\* that is at its loop head
NextThreads ==
    \/ \E symbol \in TradedSymbols, p \in PlaceInputs, e \in Equities :
          next_id = 1 /\ PlaceBreakoutOrders(symbol, p, e, TRUE, TRUE)
    \/ \E symbol \in TradedSymbols \cup {NoSymbol} : CancelAllPending(symbol, TRUE, TRUE)
    \/ \E joined \in BOOLEAN :
          (joined => monitor_thread.pc = "idle") /\ Cleanup(joined, TRUE)
    \/ \E i \in OrderIds, slip \in Slippages : BrokerFill(i, slip)
    \/ MonitorLoopHead
    \/ MonitorIterNext
    \/ MonitorCheckStatus
    \/ MonitorHandleFill
    \/ MonitorSweep
    \/ MonitorSelfStop

SpecThreads == Init /\ [][NextThreads]_vars

\* placements on two symbols next to the running monitor thread, with nothing
\* else touching the table: the client places while the thread is anywhere in its
\* pass, the self-stop included; no one stops the thread from outside, so at most
\* one is alive
NextSelfStop ==
    \/ \E symbol \in Symbols, p \in PlaceInputs, e \in Equities :
          PlaceBreakoutOrders(symbol, p, e, TRUE, TRUE)
    \/ \E i \in OrderIds, slip \in Slippages : BrokerFill(i, slip)
    \/ MonitorLoopHead
    \/ MonitorIterNext
    \/ MonitorCheckStatus
    \/ MonitorHandleFill
    \/ MonitorSweep
    \/ MonitorSelfStop

SpecSelfStop == Init /\ [][NextSelfStop]_vars

\* the monitor loop next to a client of one symbol under a failing gateway; the
\* loop is a thread of its own and gets to run its next pass
NextMonitor ==
    \/ \E p \in PlaceInputs, e \in Equities, ok_long \in BOOLEAN, ok_short \in BOOLEAN :
          PlaceBreakoutOrders(BotSymbol, p, e, ok_long, ok_short)
    \/ \E ok_long \in BOOLEAN, ok_short \in BOOLEAN :
          CancelAllPending(BotSymbol, ok_long, ok_short)
    \/ \E joined \in BOOLEAN, ok \in BOOLEAN : Cleanup(joined, ok)
    \/ \E oc \in Outcomes : MonitorOrders(oc)
    \/ \E i \in OrderIds, slip \in Slippages : BrokerFill(i, slip)

SpecMonitor == Init /\ [][NextMonitor]_vars /\ WF_vars(\E oc \in Outcomes : MonitorOrders(oc))

\* position sizing as a function of its arguments: a call is set up with its
\* arguments and then runs
InitSizing ==
    /\ today = 1
    /\ rm = NewLedger
    /\ saved = NoFile
    /\ active = << >>
    /\ executed_trades = << >>
    /\ monitoring_active = FALSE
    /\ monitor_threads = 0
    /\ orders = [i \in OrderIds |-> NoOrder]
    /\ next_id = 1
    /\ last_op \in { OpSizing("sizing_arguments", e, entry, stop, "", 0) :
                        e \in SizingEquities, entry \in SizingEntries,
                        stop \in SizingStops }
    /\ faults = 0
    /\ bot = BotIdle
    /\ monitor_thread = MonitorIdle

CalculatePositionSize ==
    /\ last_op.name = "sizing_arguments"
    /\ LET ps == calculate_position_size(last_op.amount, last_op.entry_price,
                                         last_op.stop_price)
       IN  last_op' = OpSizing("calculate_position_size", last_op.amount,
                               last_op.entry_price, last_op.stop_price,
                               IF ps.raised THEN "RiskLimitExceeded" ELSE "size",
                               IF ps.raised THEN 0 ELSE ps.size)
    /\ UNCHANGED << today, rm, saved, manager_vars, broker_vars, faults, bot >>

NextSizing == CalculatePositionSize

SpecSizing == InitSizing /\ [][NextSizing]_vars

\* the strategy as a function of its configuration and arguments: a call is set
\* up with a configuration and an opening range and then runs
InitStrategy ==
    /\ today = 1
    /\ rm = NewLedger
    /\ saved = NoFile
    /\ active = << >>
    /\ executed_trades = << >>
    /\ monitoring_active = FALSE
    /\ monitor_threads = 0
    /\ orders = [i \in OrderIds |-> NoOrder]
    /\ next_id = 1
    /\ last_op \in { OpLevels("strategy_arguments", config, RangeLow + size, RangeLow,
                              "", NoLevels, 0) :
                        config \in StrategyConfigs, size \in RangeSizes }
    /\ faults = 0
    /\ bot = BotIdle
    /\ monitor_thread = MonitorIdle

\* calculate_breakout_levels(opening_high, opening_low)
CalculateBreakoutLevels ==
    /\ last_op.name = "strategy_arguments"
    /\ LET breakout_levels == calculate_breakout_levels(last_op.config,
                                  last_op.opening_high, last_op.opening_low)
       IN  last_op' = OpLevels("calculate_breakout_levels", last_op.config,
                               last_op.opening_high, last_op.opening_low,
                               IF breakout_levels.raised THEN "ValueError" ELSE "levels",
                               IF breakout_levels.raised THEN NoLevels
                               ELSE breakout_levels,
                               0)
    /\ UNCHANGED << today, rm, saved, manager_vars, broker_vars, faults, bot >>

\* get_stop_loss_points(range_size) with the size of the opening range
GetStopLossPoints ==
    /\ last_op.name = "strategy_arguments"
    /\ last_op' = OpLevels("get_stop_loss_points", last_op.config,
                           last_op.opening_high, last_op.opening_low, "points",
                           NoLevels,
                           get_stop_loss_points(last_op.config,
                               last_op.opening_high - last_op.opening_low))
    /\ UNCHANGED << today, rm, saved, manager_vars, broker_vars, faults, bot >>

NextStrategy ==
    \/ CalculateBreakoutLevels
    \/ GetStopLossPoints

SpecStrategy == InitStrategy /\ [][NextStrategy]_vars

\* a gateway call as a function of what the broker does at each attempt
InitRetry ==
    /\ today = 1
    /\ rm = NewLedger
    /\ saved = NoFile
    /\ active = << >>
    /\ executed_trades = << >>
    /\ monitoring_active = FALSE
    /\ monitor_threads = 0
    /\ orders = [i \in OrderIds |-> NoOrder]
    /\ next_id = 1
    /\ last_op \in { OpRetry("api_call", max_retries, << >>, << >>, "") :
                        max_retries \in MaxRetries }
    /\ faults = 0
    /\ bot = BotIdle
    /\ monitor_thread = MonitorIdle

\* for attempt in range(max_retries): one attempt of func and what follows it
RetryAttempt(outcome) ==
    /\ last_op.name \in {"api_call", "api_attempt"}
    /\ last_op.result = ""
    /\ Len(last_op.outcomes) < last_op.max_retries
    /\ LET r == retry_attempt(last_op.max_retries, Len(last_op.outcomes), outcome)
       IN  last_op' = OpRetry("api_attempt", last_op.max_retries,
                              Append(last_op.outcomes, outcome),
                              Append(last_op.waits, r.wait), r.result)
    /\ UNCHANGED << today, rm, saved, manager_vars, broker_vars, faults, bot >>

NextRetry == \E outcome \in AttemptOutcomes : RetryAttempt(outcome)

SpecRetry == InitRetry /\ [][NextRetry]_vars

----------------------------------------------------------------------------
(* Session driver: bot.py, NASDAQBreakoutBot.run *)

\* run(): initialize_components, prepare_day, get_daily_stats; when the
\* initialisation raises, run() ends through its finally with no order manager
BotInitialize(ok) ==
    /\ bot.pc = "not_started"
    /\ IF ok
       THEN /\ bot' = [bot EXCEPT !.pc = "initialized", !.initialized = TRUE]
            /\ rm' = ensure_current_date(rm, today)
            /\ saved' = file_after_ensure(rm, today, saved)
       ELSE /\ bot' = [bot EXCEPT !.pc = "done"]
            /\ UNCHANGED << rm, saved >>
    /\ last_op' = Op("initialize_components", NoSymbol, 0, IF ok THEN "ok" ELSE "raised",
                     << >>)
    /\ UNCHANGED << today, manager_vars, broker_vars, faults >>

\* wait_for_market_open_plus_15 returns (target time reached, or running cleared)
BotWait ==
    /\ bot.pc = "initialized"
    /\ bot' = [bot EXCEPT !.pc = "waited"]
    /\ last_op' = Op("wait_for_market_open_plus_15", NoSymbol, 0, "", << >>)
    /\ UNCHANGED << today, rm, saved, manager_vars, broker_vars, faults >>

\* `if self.running:` is false before execute_trading_strategy
BotSkipStrategy ==
    /\ bot.pc = "waited"
    /\ ~bot.running
    /\ bot' = [bot EXCEPT !.pc = "final"]
    /\ last_op' = Op("skip_strategy", NoSymbol, 0, "", << >>)
    /\ UNCHANGED << today, rm, saved, manager_vars, broker_vars, faults >>

\* execute_trading_strategy up to the call of monitor_trading_session
BotExecuteStrategy(market_open, account_ok, account_equity, range_ok, rng, ok_long, ok_short) ==
    /\ bot.pc = "waited"
    /\ bot.running
    /\ PlaceEnabled
    /\ Gateway(<< account_ok, range_ok, ok_long, ok_short >>)
    /\ LET risk_checked == market_open /\ account_ok
           may_trade == can_trade(rm, today, account_equity, 0)
           breakout_levels == calculate_breakout_levels(BotConfig, rng.high, rng.low)
           stop_loss_points == get_stop_loss_points(BotConfig, breakout_levels.range_size)
           take_profit_points == get_take_profit_points(BotConfig, stop_loss_points)
           p == [long_entry |-> breakout_levels.long_entry,
                 short_entry |-> breakout_levels.short_entry,
                 stop_loss_points |-> stop_loss_points,
                 take_profit_points |-> take_profit_points]
           reaches_place ==
               /\ risk_checked /\ may_trade /\ range_ok
               /\ ~breakout_levels.raised
               /\ should_take_trade(BotConfig, breakout_levels)
           s == IF reaches_place
                THEN place_breakout_orders(St, rm, today, BotSymbol, p, account_equity,
                                           ok_long, ok_short)
                ELSE St
           placed == reaches_place /\ s.exc = ""
       IN  /\ Commit(s)
           /\ rm' = IF risk_checked THEN ensure_current_date(rm, today) ELSE rm
           /\ saved' = IF risk_checked THEN file_after_ensure(rm, today, saved) ELSE saved
           /\ bot' = [bot EXCEPT !.pc = IF placed THEN "session" ELSE "final",
                                 !.placed = placed]
           /\ last_op' = OpStrategy("execute_trading_strategy", BotSymbol,
                                    account_equity, rng.high, rng.low,
                                    IF placed THEN "placed"
                                    ELSE IF risk_checked /\ ~may_trade THEN "True"
                                    ELSE "False",
                                    s.calls)
    /\ UNCHANGED today

\* one evaluation of the while loop of monitor_trading_session and its body;
\* timeup = the session-end time has been reached
BotSessionPoll(timeup, account_ok, account_equity, ok_long, ok_short) ==
    /\ bot.pc = "session"
    /\ Gateway(<< account_ok, ok_long, ok_short >>)
    /\ LET loop_runs == bot.running /\ ~timeup
           has_orders == has_active_orders(active, BotSymbol)
           risk_checked == loop_runs /\ has_orders /\ account_ok
           blocked == risk_checked /\ ~can_trade(rm, today, account_equity, 0)
           s == IF blocked THEN cancel_all_pending(St, BotSymbol, ok_long, ok_short)
                ELSE St
       IN  /\ Commit(s)
           /\ rm' = IF risk_checked THEN ensure_current_date(rm, today) ELSE rm
           /\ saved' = IF risk_checked THEN file_after_ensure(rm, today, saved) ELSE saved
           /\ bot' = [bot EXCEPT !.pc = IF ~loop_runs \/ ~has_orders \/ blocked
                                        THEN "session_end" ELSE "session"]
           /\ last_op' = Op("monitor_trading_session", BotSymbol, account_equity,
                            IF ~loop_runs THEN "loop_ended"
                            ELSE IF ~has_orders THEN "no_active_orders"
                            ELSE IF ~account_ok THEN "error"
                            ELSE IF blocked THEN "limits_reached" ELSE "sleep",
                            s.calls)
    /\ UNCHANGED today

\* the end-of-session cleanup of monitor_trading_session
BotSessionEnd(ok_long, ok_short) ==
    /\ bot.pc = "session_end"
    /\ Gateway(<< ok_long, ok_short >>)
    /\ LET s == IF has_active_orders(active, BotSymbol)
                THEN cancel_all_pending(St, BotSymbol, ok_long, ok_short)
                ELSE St
       IN  /\ Commit(s)
           /\ last_op' = Op("session_end", BotSymbol, 0, "", s.calls)
    /\ bot' = [bot EXCEPT !.pc = "final"]
    /\ UNCHANGED << today, rm, saved >>

\* the final statistics of run(): get_daily_stats, get_executed_trades
BotFinal ==
    /\ bot.pc = "final"
    /\ rm' = ensure_current_date(rm, today)
    /\ saved' = file_after_ensure(rm, today, saved)
    /\ bot' = [bot EXCEPT !.pc = "cleanup"]
    /\ last_op' = Op("final_stats", NoSymbol, 0, "", << >>)
    /\ UNCHANGED << today, manager_vars, broker_vars, faults >>

\* finally: self.cleanup() -> order_manager.cleanup()
BotCleanup(joined, ok) ==
    /\ bot.pc = "cleanup"
    /\ Gateway(<< ok >>)
    /\ LET s == cleanup(St, joined, ok)
       IN  /\ Commit(s)
           /\ last_op' = Op("bot_cleanup", NoSymbol, 0,
                            IF s.exc # "" THEN s.exc ELSE "None", s.calls)
    /\ bot' = [bot EXCEPT !.pc = "done", !.cleaned = TRUE]
    /\ UNCHANGED << today, rm, saved >>

\* signal_handler: SIGINT / SIGTERM clears the running flag
SignalHandler ==
    /\ bot.pc \notin {"not_started", "done"}
    /\ bot.running
    /\ bot' = [bot EXCEPT !.running = FALSE]
    /\ last_op' = Op("signal_handler", NoSymbol, 0, "", << >>)
    /\ UNCHANGED << today, rm, saved, manager_vars, broker_vars, faults >>

NextBot ==
    \/ \E ok \in BOOLEAN : BotInitialize(ok)
    \/ BotWait
    \/ BotSkipStrategy
    \/ \E market_open \in BOOLEAN, account_ok \in BOOLEAN, e \in AccountEquities,
          range_ok \in BOOLEAN, rng \in OpeningRanges,
          ok_long \in BOOLEAN, ok_short \in BOOLEAN :
          BotExecuteStrategy(market_open, account_ok, e, range_ok, rng, ok_long, ok_short)
    \/ \E timeup \in BOOLEAN, account_ok \in BOOLEAN, e \in AccountEquities,
          ok_long \in BOOLEAN, ok_short \in BOOLEAN :
          BotSessionPoll(timeup, account_ok, e, ok_long, ok_short)
    \/ \E ok_long \in BOOLEAN, ok_short \in BOOLEAN : BotSessionEnd(ok_long, ok_short)
    \/ BotFinal
    \/ \E joined \in BOOLEAN, ok \in BOOLEAN : BotCleanup(joined, ok)
    \/ SignalHandler
    \/ \E oc \in Outcomes : MonitorOrders(oc)
    \/ \E i \in OrderIds, slip \in Slippages : BrokerFill(i, slip)
    \/ DayTick

SpecBot == Init /\ [][NextBot]_vars

\* main() once more on the same day, after run() has returned: a new bot, a new
\* OrderManager with an empty table and log, and a RiskManager that loads the
\* ledger file. The process starts once no order of the ended one is live; those
\* orders can change no more and no later step reads them, so they leave the
\* model and their ids are used again. Processes are started as long as the day's
\* executions are within the cap.
BotRestart ==
    /\ bot.pc = "done"
    /\ \A i \in OrderIds : orders[i].status # "live"
    /\ bot.earlier_executions + Len(executed_trades) <= max_trades_per_day
    /\ rm' = load_daily_data(saved, today)
    /\ active' = << >>
    /\ executed_trades' = << >>
    /\ monitoring_active' = FALSE
    /\ monitor_threads' = 0
    /\ monitor_thread' = MonitorIdle
    /\ orders' = [i \in OrderIds |-> NoOrder]
    /\ next_id' = 1
    /\ bot' = [BotIdle EXCEPT
                  !.earlier_executions = bot.earlier_executions + Len(executed_trades)]
    /\ last_op' = Op("bot_restart", NoSymbol, 0, "", << >>)
    /\ UNCHANGED << today, saved, faults >>

\* the bot run again and again on one calendar day
NextDay ==
    \/ \E ok \in BOOLEAN : BotInitialize(ok)
    \/ BotWait
    \/ BotSkipStrategy
    \/ \E market_open \in BOOLEAN, account_ok \in BOOLEAN, e \in AccountEquities,
          range_ok \in BOOLEAN, rng \in OpeningRanges,
          ok_long \in BOOLEAN, ok_short \in BOOLEAN :
          BotExecuteStrategy(market_open, account_ok, e, range_ok, rng, ok_long, ok_short)
    \/ \E timeup \in BOOLEAN, account_ok \in BOOLEAN, e \in AccountEquities,
          ok_long \in BOOLEAN, ok_short \in BOOLEAN :
          BotSessionPoll(timeup, account_ok, e, ok_long, ok_short)
    \/ \E ok_long \in BOOLEAN, ok_short \in BOOLEAN : BotSessionEnd(ok_long, ok_short)
    \/ BotFinal
    \/ \E joined \in BOOLEAN, ok \in BOOLEAN : BotCleanup(joined, ok)
    \/ SignalHandler
    \/ \E oc \in Outcomes : MonitorOrders(oc)
    \/ \E i \in OrderIds, slip \in Slippages : BrokerFill(i, slip)
    \/ BotRestart

SpecDay == Init /\ [][NextDay]_vars

----------------------------------------------------------------------------
(* Claims *)

\* C1: place_breakout_orders fails with OrderManagerError whenever the risk check
\* blocks it (trades of the day at the cap, or the day's loss over 2% of the
\* equity passed); then no order reaches the broker, the tracking table is
\* unchanged and no monitor is started.
C1_RiskBlockedPlacementFails ==
    [][ LET fresh == rm.current_date = today
            trades == IF fresh THEN rm.trades_today ELSE 0
            pnl == IF fresh THEN rm.daily_pnl ELSE 0
            loss == IF pnl < 0 THEN -pnl ELSE 0
            blocked == \/ trades >= max_trades_per_day
                       \/ loss * 100 > last_op'.amount * 2
        IN  (last_op'.name = "place_breakout_orders" /\ blocked)
            => /\ last_op'.result = "OrderManagerError"
               /\ last_op'.calls = << >>
               /\ orders' = orders
               /\ next_id' = next_id
               /\ active' = active
               /\ monitoring_active' = monitoring_active
               /\ monitor_threads' = monitor_threads ]_vars

\* C1 witness: a placement was refused with the day's trade count at the cap
C1_Witness ==
    /\ last_op.name = "place_breakout_orders"
    /\ last_op.result = "OrderManagerError"
    /\ last_op.calls = << >>
    /\ rm.current_date = today
    /\ rm.trades_today >= max_trades_per_day

\* C2: a successful place_breakout_orders leaves exactly one tracked pair for the
\* symbol, carrying the id of the buy-stop submission as long id and the id of
\* the sell-stop submission as short id; exactly two orders were submitted and
\* fill monitoring is running.
C2_SuccessfulPlacementTracksPair ==
    [][ (last_op'.name = "place_breakout_orders" /\ last_op'.result = "ok")
        => /\ Cardinality({ i \in 1..Len(active') :
                              active'[i].symbol = last_op'.symbol }) = 1
           /\ Len(last_op'.calls) >= 2
           /\ { i \in 1..Len(last_op'.calls) :
                   last_op'.calls[i].call = "submit_order" } = {1, 2}
           /\ next_id' = next_id + 2
           /\ LET pair == TableGet(active', last_op'.symbol)
                  long_id == last_op'.calls[1].id
                  short_id == last_op'.calls[2].id
              IN  /\ pair.long_order_id = long_id
                  /\ pair.short_order_id = short_id
                  /\ long_id # short_id
                  /\ orders[long_id].status = "none"
                  /\ orders[short_id].status = "none"
                  /\ orders'[long_id].side = "buy"
                  /\ orders'[short_id].side = "sell"
                  /\ orders'[long_id].symbol = last_op'.symbol
                  /\ orders'[short_id].symbol = last_op'.symbol
           /\ monitoring_active'
           /\ monitor_threads' > 0 ]_vars

\* C2 witness: a pair has just been placed and is tracked with a monitor running
C2_Witness ==
    /\ last_op.name = "place_breakout_orders"
    /\ last_op.result = "ok"
    /\ TableHas(active, last_op.symbol)
    /\ orders[TableGet(active, last_op.symbol).long_order_id].status = "live"
    /\ orders[TableGet(active, last_op.symbol).short_order_id].status = "live"
    /\ monitoring_active

\* C3: when a monitor pass sees a leg of a tracked pair reported filled (the poll
\* of that leg answered and the broker's status is filled), then after the pass
\* the symbol is no longer tracked, a cancel was requested for the sibling id and
\* none for the filled id, and exactly one TradeExecution of the filled side was
\* appended for the symbol.
C3_SeenFillHandledWithinPass ==
    [][ \A k \in 1..Len(active) :
          LET pair == active[k]
              calls == last_op'.calls
              Seen(id) == /\ orders[id].status = "filled"
                          /\ \E i \in 1..Len(calls) :
                                calls[i] = Call("get_order_status", id, TRUE)
              long_seen == Seen(pair.long_order_id)
              short_seen == ~long_seen /\ Seen(pair.short_order_id)
              filled_id == IF long_seen THEN pair.long_order_id ELSE pair.short_order_id
              sibling_id == IF long_seen THEN pair.short_order_id ELSE pair.long_order_id
              side == IF long_seen THEN "long" ELSE "short"
              appended == { i \in (Len(executed_trades) + 1)..Len(executed_trades') :
                               executed_trades'[i].symbol = pair.symbol }
          IN  (last_op'.name = "monitor_orders" /\ (long_seen \/ short_seen))
              => /\ ~TableHas(active', pair.symbol)
                 /\ \E i \in 1..Len(calls) :
                       calls[i].call = "cancel_order" /\ calls[i].id = sibling_id
                 /\ ~\E i \in 1..Len(calls) :
                       calls[i].call = "cancel_order" /\ calls[i].id = filled_id
                 /\ Cardinality(appended) = 1
                 /\ \A i \in appended : /\ executed_trades'[i].side = side
                                        /\ executed_trades'[i].order_id = filled_id ]_vars

\* C4 as stated: with a TradeExecution of the symbol, on_trade_exit raises
\* trades_today by exactly 1 and daily_pnl by exactly pnl over their values before
\* the call; with none it changes neither.
C4_TradeExitAddsToPriorCounters ==
    [][ last_op'.name = "on_trade_exit"
        => IF \E i \in 1..Len(executed_trades) :
                 executed_trades[i].symbol = last_op'.symbol
           THEN /\ rm'.trades_today = rm.trades_today + 1
                /\ rm'.daily_pnl = rm.daily_pnl + last_op'.amount
           ELSE /\ rm'.trades_today = rm.trades_today
                /\ rm'.daily_pnl = rm.daily_pnl ]_vars

\* C4 amended: with a TradeExecution of the symbol, on_trade_exit raises
\* trades_today by exactly 1 and daily_pnl by exactly pnl over the counters of the
\* current day, which are the values before the call when the ledger's date is
\* today and zero when the call first rolls a stale ledger over; with no
\* TradeExecution of the symbol it changes neither.
C4_TradeExitAddsToTodaysCounters ==
    [][ last_op'.name = "on_trade_exit"
        => LET fresh == rm.current_date = today
               trades0 == IF fresh THEN rm.trades_today ELSE 0
               pnl0 == IF fresh THEN rm.daily_pnl ELSE 0
           IN  IF \E i \in 1..Len(executed_trades) :
                     executed_trades[i].symbol = last_op'.symbol
               THEN /\ rm'.trades_today = trades0 + 1
                    /\ rm'.daily_pnl = pnl0 + last_op'.amount
               ELSE /\ rm'.trades_today = rm.trades_today
                    /\ rm'.daily_pnl = rm.daily_pnl ]_vars

\* C4 witness: a trade exit was recorded on a later day than the previous one, so
\* the day's count is 1 with two results in the history
C4_Witness ==
    /\ last_op.name = "on_trade_exit"
    /\ \E i \in 1..Len(executed_trades) : executed_trades[i].symbol = last_op.symbol
    /\ Len(rm.trade_history) = 2
    /\ rm.trade_history[1].timestamp < rm.trade_history[2].timestamp
    /\ rm.current_date = today
    /\ rm.trades_today = 1
    /\ rm.daily_pnl = last_op.amount

\* C5: when a submission fails inside place_breakout_orders, the call raises
\* OrderManagerError, the tracking table is what it was before the call and the
\* call starts no monitor.
C5_FailedSubmissionLeavesTableAlone ==
    [][ ( /\ last_op'.name = "place_breakout_orders"
          /\ \E i \in 1..Len(last_op'.calls) :
                last_op'.calls[i].call = "submit_order" /\ ~last_op'.calls[i].ok )
        => /\ last_op'.result = "OrderManagerError"
           /\ active' = active
           /\ monitoring_active' = monitoring_active
           /\ monitor_threads' = monitor_threads
           /\ \A i \in 1..Len(last_op'.calls) :
                 last_op'.calls[i].call # "start_monitoring" ]_vars

\* C5 witness: a placement failed on its short submission after the long one was
\* accepted, while a pair of another placement is tracked
C5_Witness ==
    /\ last_op.name = "place_breakout_orders"
    /\ last_op.result = "OrderManagerError"
    /\ Len(last_op.calls) = 2
    /\ last_op.calls[1].call = "submit_order" /\ last_op.calls[1].ok
    /\ last_op.calls[2].call = "submit_order" /\ ~last_op.calls[2].ok
    /\ Len(active) = 1

\* C6: when place_breakout_orders fails on the short submission after the long
\* order was accepted, the long order is not live at the broker once the call
\* has returned.
C6_NoLiveLongAfterFailedPlacement ==
    [][ ( /\ last_op'.name = "place_breakout_orders"
          /\ Len(last_op'.calls) >= 2
          /\ last_op'.calls[1].call = "submit_order" /\ last_op'.calls[1].ok
          /\ last_op'.calls[2].call = "submit_order" /\ ~last_op'.calls[2].ok )
        => orders'[last_op'.calls[1].id].status # "live" ]_vars

\* C7: at most one pair per symbol is tracked, and a placement for a symbol whose
\* pair is still tracked either fails or leaves no entry order of that pair live
\* at the broker outside every tracked pair.
C7_OnePairPerSymbolNoOrphan ==
    [][ /\ \A i, j \in 1..Len(active') :
              active'[i].symbol = active'[j].symbol => i = j
        /\ ( /\ last_op'.name = "place_breakout_orders"
             /\ TableHas(active, last_op'.symbol) )
           => \/ last_op'.result = "OrderManagerError"
              \/ LET first == TableGet(active, last_op'.symbol)
                     tracked == { active'[i].long_order_id : i \in 1..Len(active') }
                                \cup { active'[i].short_order_id : i \in 1..Len(active') }
                 IN  \A id \in {first.long_order_id, first.short_order_id} :
                        orders'[id].status = "live" => id \in tracked ]_vars

\* C8: when run() has ended after its components were initialised, cleanup has
\* been executed and no order submitted by the bot is live at the broker.
C8_RunEndsCleanedWithNoLiveOrder ==
    (bot.pc = "done" /\ bot.initialized)
    => /\ bot.cleaned
       /\ \A id \in OrderIds : orders[id].status # "live"

\* C9: cleanup stops the monitoring loop first (monitoring_active is false
\* afterwards) and then requests the broker-side cancel of all orders exactly
\* once, whatever the table holds, and it never raises.
C9_CleanupStopsThenCancelsAll ==
    [][ last_op'.name = "cleanup"
        => /\ ~monitoring_active'
           /\ last_op'.result = "None"
           /\ Len(last_op'.calls) = 2
           /\ last_op'.calls[1].call = "stop_monitoring"
           /\ last_op'.calls[2].call = "cancel_all_orders" ]_vars

\* C9 witness: cleanup ran when no order had ever been placed and still asked
\* the broker to cancel everything
C9_Witness ==
    /\ last_op.name = "cleanup"
    /\ next_id = 1
    /\ active = << >>
    /\ Len(last_op.calls) = 2
    /\ last_op.calls[2].call = "cancel_all_orders"
    /\ ~monitoring_active

\* C10: after cancel_all_pending() without a symbol has returned, the tracking
\* table is empty, whatever the broker's cancel-all call did.
C10_CancelAllClearsTable ==
    [][ (last_op'.name = "cancel_all_pending" /\ last_op'.symbol = NoSymbol)
        => active' = << >> ]_vars

\* C11: cancel_all_pending(symbol) requests the cancellation of both legs of the
\* symbol's pair and drops the pair from the table whether the cancellations
\* succeed or not; the pairs of other symbols stay as they are, and with no
\* pair tracked for the symbol the call changes nothing.
C11_CancelSymbolDropsOnlyItsPair ==
    [][ (last_op'.name = "cancel_all_pending" /\ last_op'.symbol # NoSymbol)
        => /\ last_op'.result = "True"
           /\ IF \E k \in 1..Len(active) : active[k].symbol = last_op'.symbol
              THEN LET k == CHOOSE k \in 1..Len(active) :
                               active[k].symbol = last_op'.symbol
                       calls == last_op'.calls
                   IN  /\ Len(calls) = 2
                       /\ calls[1].call = "cancel_order"
                       /\ calls[2].call = "cancel_order"
                       /\ {calls[1].id, calls[2].id}
                              = {active[k].long_order_id, active[k].short_order_id}
                       /\ Len(active') = Len(active) - 1
                       /\ \A j \in 1..Len(active') :
                             active'[j] = IF j < k THEN active[j] ELSE active[j + 1]
                       /\ \A id \in OrderIds :
                             id \notin {calls[1].id, calls[2].id}
                             => orders'[id] = orders[id]
              ELSE /\ last_op'.calls = << >>
                   /\ active' = active
                   /\ orders' = orders
           /\ executed_trades' = executed_trades
           /\ monitoring_active' = monitoring_active
           /\ monitor_threads' = monitor_threads ]_vars

\* C11 witness: both cancellations of a symbol's pair failed, the pair is gone
\* and the pair of the other symbol is still tracked
C11_Witness ==
    /\ last_op.name = "cancel_all_pending"
    /\ last_op.symbol # NoSymbol
    /\ Len(last_op.calls) = 2
    /\ ~last_op.calls[1].ok
    /\ ~last_op.calls[2].ok
    /\ ~TableHas(active, last_op.symbol)
    /\ Len(active) = 1

\* C12: of the OrderManager's operations only on_trade_exit changes the ledger's
\* daily_pnl or trades_today: a placement, a monitor pass with its fill handling,
\* a cancellation and cleanup leave both as they were, except that a placement's
\* risk check zeroes them when it rolls a stale ledger over.
C12_OnlyTradeExitMovesCounters ==
    [][ last_op'.name \in {"place_breakout_orders", "monitor_orders",
                           "cancel_all_pending", "cleanup"}
        => \/ /\ rm'.daily_pnl = rm.daily_pnl
              /\ rm'.trades_today = rm.trades_today
           \/ /\ last_op'.name = "place_breakout_orders"
              /\ rm.current_date # today
              /\ rm'.daily_pnl = 0
              /\ rm'.trades_today = 0 ]_vars

\* C12 witness: a monitor pass handled a fill on a day whose ledger already
\* carries a recorded trade, and the counters still show that one trade
C12_Witness ==
    /\ last_op.name = "monitor_orders"
    /\ \E i \in 1..Len(last_op.calls) : last_op.calls[i].call = "cancel_order"
    /\ Len(executed_trades) = 2
    /\ rm.current_date = today
    /\ rm.trades_today = 1
    /\ rm.daily_pnl # 0

\* C13: on_trade_exit records exactly one trade result per call, and the result
\* carries the quantity and the entry price of the most recent TradeExecution of
\* the symbol, also when the log holds several executions of that symbol.
C13_TradeExitForwardsLatestExecution ==
    [][ ( /\ last_op'.name = "on_trade_exit"
          /\ \E i \in 1..Len(executed_trades) :
                executed_trades[i].symbol = last_op'.symbol )
        => LET matching == { i \in 1..Len(executed_trades) :
                                executed_trades[i].symbol = last_op'.symbol }
               latest == CHOOSE i \in matching : \A j \in matching : j <= i
               n == Len(rm'.trade_history)
           IN  /\ n = Len(rm.trade_history) + 1
               /\ rm'.trade_history[n].symbol = last_op'.symbol
               /\ rm'.trade_history[n].pnl = last_op'.amount
               /\ rm'.trade_history[n].quantity = executed_trades[latest].quantity
               /\ rm'.trade_history[n].entry_price
                      = executed_trades[latest].entry_price ]_vars

\* C14: check_trade_count returns True exactly when trades_today is below
\* max_trades_per_day, that is while fewer than max_trades_per_day results were
\* recorded on the current day, and False from the max_trades_per_day-th record
\* of the day until the next day rollover.
C14_TradeCountStrictlyBelowCap ==
    [][ last_op'.name = "check_trade_count"
        => LET recorded_today ==
                   Cardinality({ i \in 1..Len(rm'.trade_history) :
                                    rm'.trade_history[i].timestamp = today })
           IN  /\ rm'.trades_today = recorded_today
               /\ (last_op'.result = "True") <=> (recorded_today < max_trades_per_day)
               /\ last_op'.result \in {"True", "False"} ]_vars

\* C14 witness: the check fails on a day on which max_trades_per_day results
\* were recorded
C14_Witness ==
    /\ last_op.name = "check_trade_count"
    /\ last_op.result = "False"
    /\ rm.current_date = today
    /\ rm.trades_today = max_trades_per_day
    /\ Len(rm.trade_history) = max_trades_per_day
    /\ \A i \in 1..Len(rm.trade_history) : rm.trade_history[i].timestamp = today

\* C15: check_daily_loss(equity, potential_loss) returns True exactly when
\* abs(min(0, daily_pnl)) + |potential_loss| <= equity * max_daily_loss_percent:
\* a total equal to the limit passes, one unit more fails.
C15_DailyLossBoundaryInclusive ==
    [][ last_op'.name = "check_daily_loss"
        => LET loss == IF rm'.daily_pnl < 0 THEN -rm'.daily_pnl ELSE 0
               extra == IF last_op'.potential_loss < 0 THEN -last_op'.potential_loss
                        ELSE last_op'.potential_loss
               total == loss + extra
           IN  /\ (last_op'.result = "True")
                  <=> (total * max_daily_loss_den <= last_op'.amount * max_daily_loss_num)
               /\ last_op'.result \in {"True", "False"} ]_vars

\* C15 witness: a day's loss that equals the limit exactly passes the check
C15_Witness ==
    /\ last_op.name = "check_daily_loss"
    /\ last_op.result = "True"
    /\ rm.daily_pnl < 0
    /\ (-rm.daily_pnl + last_op.potential_loss) * max_daily_loss_den
           = last_op.amount * max_daily_loss_num

\* C16 as stated: the loss check_daily_loss counts against the cap is the sum of
\* the losing trades recorded on the day; winning trades of the day do not
\* reduce it.
C16_ProfitsDoNotOffsetLosses ==
    [][ last_op'.name = "check_daily_loss"
        => LET h == rm'.trade_history
               gross[i \in 0..Len(h)] ==
                   IF i = 0 THEN 0
                   ELSE gross[i - 1]
                        + (IF h[i].timestamp = today /\ h[i].pnl < 0
                           THEN -h[i].pnl ELSE 0)
           IN  (last_op'.result = "True")
               <=> ((gross[Len(h)] + last_op'.potential_loss) * max_daily_loss_den
                        <= last_op'.amount * max_daily_loss_num) ]_vars

\* C16 amended: the loss check_daily_loss counts against the cap is the net loss
\* of the day, abs(min(0, sum of the day's recorded results)): a winning trade
\* reduces the loss counted (after a loss L and a win P it is max(0, L - P)),
\* and a day whose net result is positive counts as a loss of zero.
C16_NetLossOfDayCounts ==
    [][ last_op'.name = "check_daily_loss"
        => LET h == rm'.trade_history
               net[i \in 0..Len(h)] ==
                   IF i = 0 THEN 0
                   ELSE net[i - 1] + (IF h[i].timestamp = today THEN h[i].pnl ELSE 0)
               counted == IF net[Len(h)] < 0 THEN -net[Len(h)] ELSE 0
           IN  (last_op'.result = "True")
               <=> ((counted + last_op'.potential_loss) * max_daily_loss_den
                        <= last_op'.amount * max_daily_loss_num) ]_vars

\* C16 witness: after a loss of 2500 and a later win of 200 on the same day the
\* check passes against a limit of 2300
C16_Witness ==
    /\ last_op.name = "check_daily_loss"
    /\ last_op.result = "True"
    /\ last_op.potential_loss = 0
    /\ last_op.amount * max_daily_loss_num = 2300 * max_daily_loss_den
    /\ Len(rm.trade_history) = 2
    /\ rm.trade_history[1].pnl = -2500 /\ rm.trade_history[1].timestamp = today
    /\ rm.trade_history[2].pnl = 200 /\ rm.trade_history[2].timestamp = today

\* C17: can_trade(equity, potential_loss) is True exactly when the trade count
\* check and the daily loss check both pass; the trade count is checked first,
\* and when it fails the daily loss check is not evaluated.
C17_CanTradeIsBothChecksCountFirst ==
    [][ last_op'.name = "can_trade"
        => LET count_ok == rm'.trades_today < max_trades_per_day
               loss == IF rm'.daily_pnl < 0 THEN -rm'.daily_pnl ELSE 0
               extra == IF last_op'.potential_loss < 0 THEN -last_op'.potential_loss
                        ELSE last_op'.potential_loss
               loss_ok == (loss + extra) * max_daily_loss_den
                              <= last_op'.amount * max_daily_loss_num
               checks == last_op'.calls
           IN  /\ (last_op'.result = "True") <=> (count_ok /\ loss_ok)
               /\ Len(checks) >= 1
               /\ checks[1].call = "check_trade_count"
               /\ checks[1].ok = count_ok
               /\ IF count_ok
                  THEN /\ Len(checks) = 2
                       /\ checks[2].call = "check_daily_loss"
                       /\ checks[2].ok = loss_ok
                  ELSE Len(checks) = 1 ]_vars

\* C17 witness: can_trade is refused on the trade count alone, with a profitable
\* day that the loss check would pass, and the loss check was not evaluated
C17_Witness ==
    /\ last_op.name = "can_trade"
    /\ last_op.result = "False"
    /\ Len(last_op.calls) = 1
    /\ rm.trades_today >= max_trades_per_day
    /\ rm.daily_pnl > 0

\* C18: calculate_position_size fails with RiskLimitExceeded exactly for the
\* arguments with entry_price = stop_price and for those with equity <= 0, zero
\* and negative alike, and returns a size for all others.
C18_SizingFailsOnZeroRiskOrNoEquity ==
    last_op.name = "calculate_position_size"
    => ( (last_op.result = "RiskLimitExceeded")
         <=> (last_op.entry_price = last_op.stop_price \/ last_op.amount <= 0) )

\* C19: for equity > 0 and entry_price # stop_price, calculate_position_size
\* returns max(1, floor(equity * risk_percent / (|entry - stop| * point_value))),
\* never 0 or less, and when the floor is at least 1 the realised risk
\* size * |entry - stop| * point_value is within the risk budget.
C19_SizeIsFlooredWithMinimumOne ==
    ( /\ last_op.name = "calculate_position_size"
      /\ last_op.amount > 0
      /\ last_op.entry_price # last_op.stop_price )
    => LET distance == IF last_op.entry_price > last_op.stop_price
                       THEN last_op.entry_price - last_op.stop_price
                       ELSE last_op.stop_price - last_op.entry_price
           unit_risk == distance * point_value
           floor == (last_op.amount * default_risk_num) \div (default_risk_den * unit_risk)
       IN  /\ last_op.result = "size"
           /\ last_op.size = IF floor >= 1 THEN floor ELSE 1
           /\ last_op.size >= 1
           /\ floor >= 1
              => last_op.size * unit_risk * default_risk_den
                     <= last_op.amount * default_risk_num

\* C19 witness: a raw size of 2.5 (budget 25, risk 10 per unit) was floored to 2
C19_Witness ==
    /\ last_op.name = "calculate_position_size"
    /\ last_op.amount = 5000
    /\ last_op.entry_price = 100 /\ last_op.stop_price = 110
    /\ last_op.result = "size"
    /\ last_op.size = 2

\* C20: a ledger constructed while the persisted state carries another date than
\* today, or while no persisted state exists, starts with daily_pnl = 0 and
\* trades_today = 0 whatever the persisted values are.
C20_StaleOrMissingFileStartsAtZero ==
    [][ ( /\ last_op'.name = "restart"
          /\ (~saved.exists \/ saved.current_date # today) )
        => /\ rm'.daily_pnl = 0
           /\ rm'.trades_today = 0 ]_vars

\* C20 witness: a ledger was constructed over a file of an earlier day that holds
\* a loss and a trade count, and its counters are zero
C20_Witness ==
    /\ last_op.name = "restart"
    /\ saved.exists
    /\ saved.current_date # today
    /\ saved.trades_today > 0
    /\ saved.daily_pnl < 0
    /\ rm.trades_today = 0
    /\ rm.daily_pnl = 0

\* C21: whenever check_daily_loss, check_trade_count, can_trade or
\* record_trade_result runs, current_date is today's date afterwards; on a ledger
\* whose date is not today the counters are zeroed and the records that are
\* history_days or more old are dropped before the check or the record takes
\* effect, so that the check sees zero counters and the record starts from zero;
\* on a ledger whose date is today nothing is zeroed or dropped.
C21_CountersAreOfToday ==
    [][ last_op'.name \in {"check_daily_loss", "check_trade_count", "can_trade",
                           "record_trade_result"}
        => LET stale == rm.current_date # today
               kept == SelectSeq(rm.trade_history,
                                 LAMBDA t : t.timestamp > today - history_days)
               base == IF stale THEN kept ELSE rm.trade_history
               recording == last_op'.name = "record_trade_result"
           IN  /\ rm'.current_date = today'
               /\ today' = today
               /\ IF recording
                  THEN /\ rm'.daily_pnl = (IF stale THEN 0 ELSE rm.daily_pnl) + last_op'.amount
                       /\ rm'.trades_today = (IF stale THEN 0 ELSE rm.trades_today) + 1
                       /\ Len(rm'.trade_history) = Len(base) + 1
                       /\ SubSeq(rm'.trade_history, 1, Len(base)) = base
                  ELSE /\ rm'.daily_pnl = (IF stale THEN 0 ELSE rm.daily_pnl)
                       /\ rm'.trades_today = (IF stale THEN 0 ELSE rm.trades_today)
                       /\ rm'.trade_history = base
               /\ (stale /\ last_op'.name = "check_trade_count")
                      => last_op'.result = "True"
               /\ (stale /\ last_op'.name \in {"check_daily_loss", "can_trade"})
                      => ((last_op'.result = "True")
                            <=> (last_op'.potential_loss * max_daily_loss_den
                                    <= last_op'.amount * max_daily_loss_num)) ]_vars

\* C21 witness: the day after a day on which max_trades_per_day results were
\* recorded at a loss, can_trade passes on zeroed counters
C21_Witness ==
    /\ last_op.name = "can_trade"
    /\ last_op.result = "True"
    /\ today = 2
    /\ rm.current_date = today
    /\ rm.trades_today = 0
    /\ rm.daily_pnl = 0
    /\ Len(rm.trade_history) = max_trades_per_day
    /\ \A i \in 1..Len(rm.trade_history) :
          rm.trade_history[i].timestamp = 1 /\ rm.trade_history[i].pnl < 0

C23_TableAccessIsSerialised ==
    [][ (/\ monitor_thread.pc # "idle"
         /\ last_op'.name \in {"place_breakout_orders", "cancel_all_pending", "cleanup"})
        => active' = active ]_vars

\* C24: a run of execute_trading_strategy submits an order only when can_trade
\* (trade count below the cap and the day's loss within 2% of the equity the
\* broker reported) passed and the opening range size lies in
\* (min_range_size, max_range_size]; otherwise no order reaches the broker, the
\* table is unchanged, and the run returns to run(), which goes on to its final
\* statistics and cleanup.
C24_NoOrderWithoutRiskAndRangeCheck ==
    [][ last_op'.name = "execute_trading_strategy"
        => LET range_size == last_op'.opening_high - last_op'.opening_low
               range_valid == /\ BotConfig.min_range_size < range_size
                              /\ range_size <= BotConfig.max_range_size
               loss == IF rm'.daily_pnl < 0 THEN -rm'.daily_pnl ELSE 0
               may_trade == /\ rm'.current_date = today
                            /\ rm'.trades_today < max_trades_per_day
                            /\ loss * max_daily_loss_den
                                  <= last_op'.amount * max_daily_loss_num
               submitted == \E i \in 1..Len(last_op'.calls) :
                               last_op'.calls[i].call = "submit_order"
           IN  /\ (submitted \/ next_id' # next_id \/ orders' # orders
                     \/ last_op'.result = "placed")
                      => (may_trade /\ range_valid)
               /\ ~(may_trade /\ range_valid)
                      => /\ active' = active
                         /\ last_op'.calls = << >>
                         /\ bot'.pc = "final"
                         /\ ~bot'.placed
               /\ bot'.pc \in {"session", "final"} ]_vars

\* C24 witness: a session on an account in deficit ends at the risk check with
\* no order at the broker, although the opening range was valid
C24_Witness ==
    /\ last_op.name = "execute_trading_strategy"
    /\ last_op.amount < 0
    /\ last_op.opening_high - last_op.opening_low = 55
    /\ last_op.result = "True"
    /\ last_op.calls = << >>
    /\ next_id = 1
    /\ active = << >>
    /\ bot.pc = "final"

\* C25: when monitor_trading_session returns (no active order left, session-end
\* time reached or running flag cleared) no pair is tracked for the symbol; a
\* pair that was still tracked at that point has had a cancel requested at the
\* broker for its long and for its short order and has been dropped from the
\* table, whether or not the broker accepted the cancels.
C25_SessionEndsUntracked ==
    [][ last_op'.name = "session_end"
        => /\ ~(\E i \in 1..Len(active') : active'[i].symbol = last_op'.symbol)
           /\ \A k \in 1..Len(active) :
                 active[k].symbol = last_op'.symbol
                 => \A id \in {active[k].long_order_id, active[k].short_order_id} :
                       \E i \in 1..Len(last_op'.calls) :
                          /\ last_op'.calls[i].call = "cancel_order"
                          /\ last_op'.calls[i].id = id ]_vars

\* C25 witness: the session ends with the pair still tracked, both cancels are
\* requested, the broker refuses one, and the pair is dropped all the same
C25_Witness ==
    /\ last_op.name = "session_end"
    /\ Len(last_op.calls) = 2
    /\ \E i \in 1..2 : ~last_op.calls[i].ok
    /\ active = << >>
    /\ bot.pc = "final"
    /\ \E id \in OrderIds : orders[id].status = "live"

\* C26: calculate_breakout_levels accepts an opening range exactly when
\* min_range_size < high - low <= max_range_size: a range equal to
\* min_range_size or above max_range_size raises an error and yields no levels,
\* a range equal to max_range_size yields levels.
C26_RangeWindowOpenBelowClosedAbove ==
    last_op.name = "calculate_breakout_levels"
    => LET size == last_op.opening_high - last_op.opening_low
       IN  /\ (last_op.result = "levels")
              <=> (last_op.config.min_range_size < size
                   /\ size <= last_op.config.max_range_size)
           /\ last_op.result \in {"levels", "ValueError"}
           /\ last_op.result = "ValueError" => last_op.levels = NoLevels
           /\ last_op.result = "levels"
                 => /\ ~last_op.levels.raised
                    /\ last_op.levels.range_size = size
           /\ size = last_op.config.min_range_size => last_op.result = "ValueError"
           /\ size > last_op.config.max_range_size => last_op.result = "ValueError"
           /\ size = last_op.config.max_range_size => last_op.result = "levels"

\* C26 witness: a range of exactly max_range_size is accepted
C26_Witness ==
    /\ last_op.name = "calculate_breakout_levels"
    /\ last_op.opening_high - last_op.opening_low = last_op.config.max_range_size
    /\ last_op.result = "levels"
    /\ last_op.levels.range_size = last_op.config.max_range_size

C28_ScenarioShortTarget14865 ==
    (/\ last_op.name = "calculate_breakout_levels"
     /\ last_op.opening_high = 15035 /\ last_op.opening_low = 14980
     /\ last_op.config.breakout_offset_points = 15
     /\ last_op.config.stop_loss_points = 25
     /\ last_op.config.risk_reward_ratio = 2
     /\ ~last_op.config.use_dynamic_stops)
    => /\ last_op.result = "levels"
       /\ last_op.levels.long_entry = 15050
       /\ last_op.levels.long_stop_loss = 15025
       /\ last_op.levels.long_take_profit = 15100
       /\ last_op.levels.short_entry = 14965
       /\ last_op.levels.short_stop_loss = 14990
       /\ last_op.levels.short_take_profit = 14865

\* C28 amended: for the opening range high 15035 / low 14980 with offset 15,
\* fixed stop 25 and ratio 2 the levels are long 15050 / stop 15025 / target
\* 15100 and short 14965 / stop 14990 / target 14915: the short target lies 50
\* points below the short entry, as the long target lies 50 above the long one.
C28_ScenarioShortTarget14915 ==
    (/\ last_op.name = "calculate_breakout_levels"
     /\ last_op.opening_high = 15035 /\ last_op.opening_low = 14980
     /\ last_op.config.breakout_offset_points = 15
     /\ last_op.config.stop_loss_points = 25
     /\ last_op.config.risk_reward_ratio = 2
     /\ ~last_op.config.use_dynamic_stops)
    => /\ last_op.result = "levels"
       /\ last_op.levels.long_entry = 15050
       /\ last_op.levels.long_stop_loss = 15025
       /\ last_op.levels.long_take_profit = 15100
       /\ last_op.levels.short_entry = 14965
       /\ last_op.levels.short_stop_loss = 14990
       /\ last_op.levels.short_take_profit = 14915

\* C28 witness: the scenario has run under the default range window
C28_Witness ==
    /\ last_op.name = "calculate_breakout_levels"
    /\ last_op.opening_high = 15035 /\ last_op.opening_low = 14980
    /\ last_op.config = BotConfig
    /\ last_op.result = "levels"
    /\ last_op.levels.short_take_profit = 14915

\* C29: with use_dynamic_stops the stop distance of a range is
\* range_size * dynamic_stop_multiplier clamped to [15, 50], whatever
\* min_range_size, max_range_size and stop_loss_points are; without it the stop
\* distance is stop_loss_points for every range.
C29_DynamicStopIsClamped ==
    last_op.name = "get_stop_loss_points"
    => LET c == last_op.config
           size == last_op.opening_high - last_op.opening_low
           raw_num == size * c.dynamic_stop_multiplier_num
           den == c.dynamic_stop_multiplier_den
           d == last_op.stop_distance
       IN  IF c.use_dynamic_stops
           THEN /\ raw_num <= 15 * den => d = 15
                /\ raw_num >= 50 * den => d = 50
                /\ (15 * den < raw_num /\ raw_num < 50 * den) => d * den = raw_num
           ELSE d = c.stop_loss_points

\* C29 witness: a range of 101 points, outside every range window, gets the
\* upper clamp of 50 under dynamic stops
C29_Witness ==
    /\ last_op.name = "get_stop_loss_points"
    /\ last_op.config.use_dynamic_stops
    /\ last_op.opening_high - last_op.opening_low = 101
    /\ last_op.opening_high - last_op.opening_low > last_op.config.max_range_size
    /\ last_op.stop_distance = 50
    /\ last_op.config.stop_loss_points # 50

\* C30: an APIError with a 4xx status other than 429 is not retried: the broker
\* call is attempted once, no further attempt follows the error and the call
\* fails with AlpacaAPIError; an error with a 5xx status or 429 that is not the
\* last attempt allowed is followed by a backoff of min(2^attempt, 30) seconds
\* and another attempt.
C30_ClientErrorIsNotRetried ==
    last_op.name = "api_attempt"
    => \A i \in 1..Len(last_op.outcomes) :
          LET e == last_op.outcomes[i]
              client_error == /\ e.kind = "APIError"
                              /\ 400 <= e.status_code /\ e.status_code < 500
                              /\ e.status_code # 429
              server_error == /\ e.kind = "APIError"
                              /\ (e.status_code >= 500 \/ e.status_code = 429)
          IN  /\ client_error
                    => /\ i = 1
                       /\ Len(last_op.outcomes) = 1
                       /\ last_op.result = "AlpacaAPIError"
              /\ (server_error /\ i < last_op.max_retries)
                    => /\ last_op.result = "" \/ Len(last_op.outcomes) > i
                       /\ last_op.waits[i] = (IF 2 ^ (i - 1) < 30 THEN 2 ^ (i - 1) ELSE 30)

C33_FailedSiblingCancelStillRecordsFill ==
    [][ last_op'.name = "monitor_orders"
        => \A i \in 1..Len(last_op'.calls) :
              (last_op'.calls[i].call = "cancel_order" /\ ~last_op'.calls[i].ok)
              => \E k \in 1..Len(active) :
                    LET pair == active[k]
                        sibling == last_op'.calls[i].id
                        filled == IF sibling = pair.long_order_id
                                  THEN pair.short_order_id ELSE pair.long_order_id
                    IN  /\ sibling \in {pair.long_order_id, pair.short_order_id}
                        /\ \E j \in (Len(executed_trades) + 1)..Len(executed_trades') :
                              /\ executed_trades'[j].order_id = filled
                              /\ executed_trades'[j].symbol = pair.symbol
                        /\ \A q \in 1..Len(active') : active'[q].symbol # pair.symbol ]_vars

\* C33 witness: a pass has recorded a fill although the sibling's cancel failed
\* and the sibling is still live at the broker
C33_Witness ==
    /\ last_op.name = "monitor_orders"
    /\ \E i \in 1..Len(last_op.calls) :
          /\ last_op.calls[i].call = "cancel_order"
          /\ ~last_op.calls[i].ok
          /\ orders[last_op.calls[i].id].status = "live"
    /\ Len(executed_trades) = 1
    /\ active = << >>

\* C34: the TradeExecution a monitor pass appends for a fill carries the pair's
\* position size as quantity, the broker's fill price as entry price, and stop
\* and target at the planned point distances from that fill price (long: fill -
\* stop_loss_points, fill + take_profit_points; short: fill + stop_loss_points,
\* fill - take_profit_points), whatever the planned trigger price was.
C34_ExecutionPricedFromActualFill ==
    [][ last_op'.name = "monitor_orders"
        => \A j \in (Len(executed_trades) + 1)..Len(executed_trades') :
              LET e == executed_trades'[j]
                  fill == orders[e.order_id].filled_avg_price
              IN  \E k \in 1..Len(active) :
                     LET pair == active[k]
                     IN  /\ pair.symbol = e.symbol
                         /\ e.order_id = IF e.side = "long" THEN pair.long_order_id
                                         ELSE pair.short_order_id
                         /\ e.quantity = pair.position_size
                         /\ e.entry_price = fill
                         /\ e.side = "long"
                               => /\ e.stop_loss = fill - pair.stop_loss_points
                                  /\ e.take_profit = fill + pair.take_profit_points
                         /\ e.side = "short"
                               => /\ e.stop_loss = fill + pair.stop_loss_points
                                  /\ e.take_profit = fill - pair.take_profit_points ]_vars

\* C34 witness: a short execution is in the log whose fill price differs from the
\* trigger price of its order
C34_Witness ==
    /\ last_op.name = "monitor_orders"
    /\ executed_trades # << >>
    /\ LET e == executed_trades[Len(executed_trades)]
       IN  /\ e.side = "short"
           /\ e.entry_price # orders[e.order_id].stop_price
           /\ e.stop_loss > e.entry_price
           /\ e.take_profit < e.entry_price

\* C35: every entry order the driver submits carries the quantity the ledger
\* computes from the long side (entry long_entry, stop long_entry -
\* stop_loss_points), so both orders of a pair have the same quantity; the buy
\* order's bracket is long_entry - stop_loss_points / long_entry +
\* take_profit_points, the sell order's short_entry + stop_loss_points /
\* short_entry - take_profit_points; and with the distances the driver takes from
\* the strategy these are the stop-loss and take-profit prices of the
\* BreakoutLevels computed for the opening range.
C35_BothOrdersSizedFromLongSideBracketsMatchLevels ==
    [][ last_op'.name = "execute_trading_strategy"
        => LET levels == calculate_breakout_levels(BotConfig, last_op'.opening_high,
                                                   last_op'.opening_low)
               long_entry == last_op'.opening_high + BotConfig.breakout_offset_points
               short_entry == last_op'.opening_low - BotConfig.breakout_offset_points
               sl == get_stop_loss_points(BotConfig, levels.range_size)
               tp == sl * BotConfig.risk_reward_ratio
               long_stop_price == long_entry - sl
               risk_per_unit == (long_entry - long_stop_price) * point_value
               raw == (last_op'.amount * default_risk_num)
                         \div (default_risk_den * risk_per_unit)
               size == IF raw < 1 THEN 1 ELSE raw
           IN  /\ \A id \in next_id..(next_id' - 1) :
                     /\ orders'[id].qty = size
                     /\ orders'[id].side = "buy"
                           => /\ orders'[id].stop_price = long_entry
                              /\ orders'[id].stop_loss = long_entry - sl
                              /\ orders'[id].take_profit = long_entry + tp
                              /\ orders'[id].stop_loss = levels.long_stop_loss
                              /\ orders'[id].take_profit = levels.long_take_profit
                     /\ orders'[id].side = "sell"
                           => /\ orders'[id].stop_price = short_entry
                              /\ orders'[id].stop_loss = short_entry + sl
                              /\ orders'[id].take_profit = short_entry - tp
                              /\ orders'[id].stop_loss = levels.short_stop_loss
                              /\ orders'[id].take_profit = levels.short_take_profit
               /\ last_op'.result = "placed"
                     => /\ next_id' = next_id + 2
                        /\ orders'[next_id].side = "buy"
                        /\ orders'[next_id + 1].side = "sell"
                        /\ orders'[next_id].qty = orders'[next_id + 1].qty ]_vars

\* C35 witness: the driver has placed a pair for the range 14980..15035: twenty
\* units each side, the sell order with its stop above and its target below the
\* short entry
C35_Witness ==
    /\ last_op.name = "execute_trading_strategy"
    /\ last_op.result = "placed"
    /\ last_op.opening_high = 15035
    /\ orders[1].side = "buy" /\ orders[1].qty = 20
    /\ orders[2].side = "sell" /\ orders[2].qty = 20
    /\ orders[2].stop_price = 14965
    /\ orders[2].stop_loss = 14990
    /\ orders[2].take_profit = 14915

\* C36: within a session the execution log only grows at its end: across every
\* placement, fill, monitor pass, cancellation, trade exit and cleanup the log
\* before the step is a prefix of the log after it, so an appended TradeExecution
\* is never removed, moved or changed.
C36_ExecutionLogIsAppendOnly ==
    [][ /\ Len(executed_trades') >= Len(executed_trades)
        /\ SubSeq(executed_trades', 1, Len(executed_trades)) = executed_trades ]_vars

\* C36 witness: two executions are in the log, in the order of their handling,
\* after a trade exit and a cleanup have run on the first
C36_Witness ==
    /\ Len(executed_trades) = 2
    /\ executed_trades[1].order_id < executed_trades[2].order_id
    /\ rm.trades_today = 1
    /\ last_op.name = "cleanup"

\* C37: a tracked pair is never left without a monitor: whenever the table holds
\* a pair (place_breakout_orders has returned with it tracked), a monitor thread
\* is alive and the monitoring flag is set, under every interleaving of the
\* placement with the steps of the thread, its self-stop included.
C37_TrackedPairHasMonitor ==
    active # << >> => (monitoring_active /\ monitor_threads > 0)

\* C38: at most one monitor loop is alive per OrderManager at any time, whatever
\* the order of start_monitoring, stop_monitoring (whose join of at most 5 s may
\* time out while the loop sleeps) and the loop's own stop.
C38_AtMostOneMonitorLoop ==
    monitor_threads <= 1

\* C39: whenever a monitor pass removes a pair from the table (one of its legs was
\* reported filled), the pass has appended a TradeExecution for one of the pair's
\* orders and has requested a cancel for the other order of the pair, also when
\* the gateway call that fetches the fill details fails.
C39_RemovedPairWasRecordedAndSiblingCancelled ==
    [][ last_op'.name = "monitor_orders"
        => \A k \in 1..Len(active) :
              LET pair == active[k]
                  Other(id) == IF id = pair.long_order_id THEN pair.short_order_id
                               ELSE pair.long_order_id
              IN  ~TableHas(active', pair.symbol)
                  => \E j \in (Len(executed_trades) + 1)..Len(executed_trades') :
                        /\ executed_trades'[j].symbol = pair.symbol
                        /\ executed_trades'[j].order_id
                              \in {pair.long_order_id, pair.short_order_id}
                        /\ \E i \in 1..Len(last_op'.calls) :
                              /\ last_op'.calls[i].call = "cancel_order"
                              /\ last_op'.calls[i].id = Other(executed_trades'[j].order_id)
      ]_vars

====
